---- MODULE Spec2Model ----
(***************************************************************************)
(* A model of the gobayeux client: the connection state machine            *)
(* (state_machine.go), the low-level protocol client (v2/bayeux_client.go) *)
(* and the high-level client with its poll loop (client.go, the revision   *)
(* with the shutdown queue and enqueueConnectRequest, lines 237-511).      *)
(*                                                                         *)
(* A Channel is modelled as the sequence of its tokens: "/" and "*" are    *)
(* tokens of their own and a run of letters is one token, so that          *)
(* "/meta/connect" is <<"/", "meta", "/", "connect">> and "" is <<>>.      *)
(* An error is a sequence of strings, outermost wrapper first; <<>> is nil.*)
(***************************************************************************)
EXTENDS Integers, Sequences, FiniteSets, TLC

\* ------------------------------------------------------------------ bounds
MaxEvents == 4          \* ProcessEvent calls in one run of SpecCSM
MaxCalls == 2           \* calls the caller makes on a Client, of any kind
MaxSubscribes == 2      \* Client.Subscribe calls
MaxUnsubscribes == 1    \* Client.Unsubscribe calls
MaxConnects == 2        \* /meta/connect requests sent
MaxDisconnects == 2     \* Client.Disconnect calls
MaxRequests == 2        \* BayeuxClient.request calls in one run of SpecExt
MaxBatch == 2           \* messages in one request or response of SpecExt
MaxOps == 4             \* calls on the subscriptionsMap in one run of SpecSM
MaxChanLen == 6         \* bytes of the Channel calls are made on in SpecChannel
MaxOtherLen == 3        \* bytes of the argument of Match in SpecChannel
MaxAdds == 3            \* AddSubscription calls on one builder in SpecBuilder
MaxTasks == 3           \* tasks that call ProcessEvent at the same time in SpecConc
MaxBCCalls == 5         \* calls on one BayeuxClient in SpecBC

\* ------------------------------------------------------- program constants
unconnected == 0
connecting == 1
connected == 2

SubscribeQueueCap == 10
UnsubscribeQueueCap == 10
ConnectRequestCap == 1
ConnectMessageCap == 5

emptyChannel == <<>>
MetaHandshake == <<"/", "meta", "/", "handshake">>
MetaConnect == <<"/", "meta", "/", "connect">>
MetaSubscribe == <<"/", "meta", "/", "subscribe">>
MetaUnsubscribe == <<"/", "meta", "/", "unsubscribe">>
MetaDisconnect == <<"/", "meta", "/", "disconnect">>
Foo == <<"/", "foo">>
Bar == <<"/", "bar">>

handshakeSent == "handshake request sent"
timeout == "Timeout"
successfullyConnected == "Successful connect response"
disconnectSent == "Disconnect request sent"

NoErr == <<>>
ErrClientNotConnected == <<"ErrClientNotConnected">>
ErrTooManyMessages == <<"ErrTooManyMessages">>
ErrBadChannel == <<"ErrBadChannel">>
ErrFailedToConnect == <<"ErrFailedToConnect">>

\* ---------------------------------------------------------------- helpers
Range(s) == {s[i] : i \in 1..Len(s)}

SeqsUpTo(S, n) == UNION {[1..k -> S] : k \in 0..n}

Wrap(kind, err) == <<kind>> \o err

\* ------------------------------------------------- connection state machine
\* ProcessEvent with the guard of successfullyConnected left out: the event is
\* accepted in every state.
ProcessEventConnectsAnywhere(s, e) ==
    CASE e = handshakeSent ->
            IF s = unconnected
            THEN [state |-> connecting, err |-> NoErr]
            ELSE [state |-> s, err |-> <<"BadHandshakeError">>]
      [] e = timeout -> [state |-> unconnected, err |-> NoErr]
      [] e = successfullyConnected -> [state |-> connected, err |-> NoErr]
      [] e = disconnectSent ->
            IF s = connected \/ s = connecting
            THEN [state |-> unconnected, err |-> NoErr]
            ELSE [state |-> s, err |-> NoErr]
      [] OTHER -> [state |-> s, err |-> <<"UnknownEventTypeError">>]

\* ProcessEvent storing the new state before it looks at the old one: a
\* rejected event still moves the machine.
ProcessEventStoresFirst(s, e) ==
    CASE e = handshakeSent ->
            IF s = unconnected
            THEN [state |-> connecting, err |-> NoErr]
            ELSE [state |-> connecting, err |-> <<"BadHandshakeError">>]
      [] e = timeout -> [state |-> unconnected, err |-> NoErr]
      [] e = successfullyConnected ->
            IF s = connecting
            THEN [state |-> connected, err |-> NoErr]
            ELSE [state |-> connected, err |-> <<"BadConnectionError">>]
      [] e = disconnectSent ->
            IF s = connected \/ s = connecting
            THEN [state |-> unconnected, err |-> NoErr]
            ELSE [state |-> s, err |-> NoErr]
      [] OTHER -> [state |-> s, err |-> <<"UnknownEventTypeError">>]

ProcessEvent(s, e) ==
    CASE e = handshakeSent ->
            IF s = unconnected
            THEN [state |-> connecting, err |-> NoErr]
            ELSE [state |-> s, err |-> <<"BadHandshakeError">>]
      [] e = timeout -> [state |-> unconnected, err |-> NoErr]
      [] e = successfullyConnected ->
            IF s = connecting
            THEN [state |-> connected, err |-> NoErr]
            ELSE [state |-> s, err |-> <<"BadConnectionError">>]
      [] e = disconnectSent ->
            IF s = connected \/ s = connecting
            THEN [state |-> unconnected, err |-> NoErr]
            ELSE [state |-> s, err |-> NoErr]
      [] OTHER -> [state |-> s, err |-> <<"UnknownEventTypeError">>]

\* The tasks that share one ConnectionStateMachine, and a task that has not
\* called ProcessEvent yet.
Tasks == 1..MaxTasks

NoCall == [pc |-> "idle", e |-> "none", kind |-> "none", err |-> NoErr]

IsConnected(s) == s = connected

CurrentState(s) ==
    CASE s = connecting -> "CONNECTING"
      [] s = connected -> "CONNECTED"
      [] OTHER -> "UNCONNECTED"

\* ------------------------------------------------------------------ Channel
HasWildcard(c) == Len(c) > 0 /\ c[Len(c)] = "*"

IsValid(c) ==
    IF "*" \in Range(c) /\ ~HasWildcard(c)
    THEN FALSE
    ELSE IF ~(Len(c) > 0 /\ c[1] = "/")
    THEN FALSE
    ELSE TRUE

\* strings.HasPrefix
HasPrefix(s, prefix) ==
    Len(prefix) <= Len(s) /\ SubSeq(s, 1, Len(prefix)) = prefix

\* strings.LastIndexByte: the index, counted from 0, of the last b in s; -1
\* when s holds none.
LastIndexByte(s, b) ==
    LET at == {i \in 1..Len(s) : s[i] = b}
    IN  IF at = {} THEN -1 ELSE (CHOOSE i \in at : \A j \in at : j <= i) - 1

\* A Match call returns value or panics.
Returns(v) == [panics |-> FALSE, value |-> v]
Panics == [panics |-> TRUE, value |-> FALSE]

\* self[:index] is the pattern before its last '/', the '/' not included;
\* other[index+1:] panics (slice bounds out of range) when other is shorter
\* than index+1.
matchAgainstWildcards(self, other) ==
    LET index == LastIndexByte(self, "/")
        prefix == SubSeq(self, 1, index)
        wildcards == SubSeq(self, index + 2, Len(self))
        startMatchingWildcards == SubSeq(other, index + 2, Len(other))
    IN  IF index = -1
        THEN Returns(FALSE)
        ELSE IF ~HasPrefix(other, prefix)
        THEN Returns(FALSE)
        ELSE IF index + 1 > Len(other)
        THEN Panics
        ELSE CASE wildcards = <<"*">> -> Returns("/" \notin Range(startMatchingWildcards))
               [] wildcards = <<"*", "*">> -> Returns(TRUE)
               [] OTHER -> Returns(FALSE)

MatchString(c, other) ==
    IF HasWildcard(c)
    THEN matchAgainstWildcards(c, other)
    ELSE Returns(c = other)

Match(c, other) == MatchString(c, other)

\* ------------------------------------------------------------------ Advice
\* Message.Advice is a pointer: "nil" stands for the nil pointer, any other
\* value for an Advice record with that Reconnect field.
NilAdvice == "nil"

MustNotRetryOrHandshake(a) == a = "none"

ShouldHandshake(a) == a = "handshake"

\* ----------------------------------------------------------------- Message
Message(ch, ok, cid, sub, adv) ==
    [channel |-> ch, successful |-> ok, clientId |-> cid,
     subscription |-> sub, advice |-> adv, seq |-> <<0, 0>>]

\* A reply of the transport: status 0 is a transport error (no response).
TransportError == 0

Reply(status, body) == [status |-> status, body |-> body]

\* http.StatusText of the statuses the server answers with.
StatusText(status) ==
    CASE status = 200 -> "OK"
      [] status = 400 -> "Bad Request"
      [] OTHER -> ""

\* The body of a response that is no list of messages.
ErrorBody == "{error: Invalid request}"

\* request followed by parseResponse: the decoded messages or the error. The
\* BadResponseError is built from the status code and the status text.
parseResponse(reply) ==
    IF reply.status = TransportError
    THEN [err |-> <<"transport error">>, body |-> <<>>]
    ELSE IF reply.status # 200
    THEN [err |-> <<"BadResponseError", ToString(reply.status),
                    StatusText(reply.status)>>,
          body |-> <<>>]
    ELSE [err |-> NoErr, body |-> reply.body]

\* ------------------------------------------------------------- BayeuxClient
ClientIDs == {"", "abc"}

\* The precondition shared by Connect, Subscribe, Unsubscribe and Disconnect.
\* A precondition that looks at the state only.
NotConnectedByState(state, cid) == ~IsConnected(state)

NotConnected(state, cid) == ~IsConnected(state) \/ cid = ""

\* A Handshake that takes the one message of the response whatever its
\* channel.
HandshakeResponseAnyChannel(reply) ==
    LET r == parseResponse(reply)
    IN  IF r.err # NoErr
        THEN [err |-> Wrap("HandshakeFailedError", r.err), clientId |-> ""]
        ELSE IF Len(r.body) > 1
        THEN [err |-> Wrap("HandshakeFailedError", ErrTooManyMessages), clientId |-> ""]
        ELSE IF Len(r.body) = 0
        THEN [err |-> Wrap("HandshakeFailedError", ErrBadChannel), clientId |-> ""]
        ELSE IF ~r.body[1].successful
        THEN [err |-> <<"HandshakeFailedError", "server error">>, clientId |-> ""]
        ELSE [err |-> NoErr, clientId |-> r.body[1].clientId]

\* Handshake after the request was sent: the error it returns, and the
\* clientId it stores when it returns none.
HandshakeResponse(reply) ==
    LET r == parseResponse(reply)
        hs == SelectSeq(r.body, LAMBDA m : m.channel = MetaHandshake)
    IN  IF r.err # NoErr
        THEN [err |-> Wrap("HandshakeFailedError", r.err), clientId |-> ""]
        ELSE IF Len(r.body) > 1
        THEN [err |-> Wrap("HandshakeFailedError", ErrTooManyMessages), clientId |-> ""]
        ELSE IF Len(hs) = 0
        THEN [err |-> Wrap("HandshakeFailedError", ErrBadChannel), clientId |-> ""]
        ELSE IF ~hs[Len(hs)].successful
        THEN [err |-> <<"HandshakeFailedError", "server error">>, clientId |-> ""]
        ELSE [err |-> NoErr, clientId |-> hs[Len(hs)].clientId]

ConnectResponse(reply) ==
    LET r == parseResponse(reply)
    IN  IF r.err # NoErr
        THEN [err |-> Wrap("ConnectionFailedError", r.err), ms |-> <<>>]
        ELSE IF \E i \in 1..Len(r.body) :
                    r.body[i].channel = MetaConnect /\ ~r.body[i].successful
        THEN [err |-> Wrap("ConnectionFailedError", ErrFailedToConnect), ms |-> r.body]
        ELSE [err |-> NoErr, ms |-> r.body]

\* The builders' AddSubscription loop: the channels in first-insertion order,
\* a channel already added being ignored.
RECURSIVE AddSubscriptions(_, _)
AddSubscriptions(acc, channels) ==
    IF channels = <<>>
    THEN acc
    ELSE AddSubscriptions(
            IF Head(channels) \in Range(acc) THEN acc ELSE Append(acc, Head(channels)),
            Tail(channels))

\* An AddSubscription without the loop over the channels already added.
BuilderAddNoDedup(subscription, c) ==
    IF ~IsValid(c)
    THEN [subscription |-> subscription,
          err |-> <<"channel appears to not be a valid channel">>]
    ELSE [subscription |-> Append(subscription, c), err |-> NoErr]

\* SubscribeRequestBuilder.AddSubscription, UnsubscribeRequestBuilder.AddSubscription
BuilderAdd(subscription, c) ==
    IF ~IsValid(c)
    THEN [subscription |-> subscription,
          err |-> <<"channel appears to not be a valid channel">>]
    ELSE IF \E i \in 1..Len(subscription) : subscription[i] = c
    THEN [subscription |-> subscription, err |-> NoErr]
    ELSE [subscription |-> Append(subscription, c), err |-> NoErr]

\* SubscribeRequestBuilder.Build (meta = MetaSubscribe),
\* UnsubscribeRequestBuilder.Build (meta = MetaUnsubscribe)
BuilderBuild(meta, cid, subscription) ==
    IF cid = ""
    THEN [ms |-> <<>>, err |-> <<"missing clientID value">>]
    ELSE IF Len(subscription) < 1
    THEN [ms |-> <<>>, err |-> <<"no subscriptions provided">>]
    ELSE [ms |-> [i \in 1..Len(subscription) |->
                      Message(meta, FALSE, cid, subscription[i], NilAdvice)],
          err |-> NoErr]

\* What Subscribe and Unsubscribe return before any request is sent
\* (kind is the wrapping error type), or NoErr when the request goes out.
BatchPrecheck(kind, state, cid, channels) ==
    IF NotConnected(state, cid)
    THEN Wrap(kind, ErrClientNotConnected)
    ELSE IF \E i \in 1..Len(channels) : ~IsValid(channels[i])
    THEN Wrap(kind, <<"InvalidChannelError">>)
    ELSE IF Len(AddSubscriptions(<<>>, channels)) < 1
    THEN Wrap(kind, <<"EmptySliceError">>)
    ELSE NoErr

\* A response check that overlooks successful = false.
BatchResponseIgnoresRefusal(kind, meta, reply) ==
    Wrap(kind, parseResponse(reply).err)

\* What Subscribe (meta = MetaSubscribe), Unsubscribe and Disconnect return
\* once the response is in. Disconnect wraps no cause when the server refuses.
BatchResponse(kind, meta, reply) ==
    LET r == parseResponse(reply)
    IN  IF r.err # NoErr
        THEN Wrap(kind, r.err)
        ELSE IF \E i \in 1..Len(r.body) :
                    r.body[i].channel = meta /\ ~r.body[i].successful
        THEN IF meta = MetaDisconnect THEN Wrap(kind, NoErr)
                                      ELSE <<kind, "server error">>
        ELSE NoErr

\* ------------------------------------------------------------ subscriptionsMap
\* What the last call on a Channel did: op is "Match" or "IsValid", and the
\* call returned value or panicked; NoMatch before a call on the channels
\* at hand.
NoMatch == [op |-> "none", panics |-> FALSE, value |-> FALSE]

UserSinks == {"s1", "s2"}
ConnectSink == "connectMessageChannel"

\* An Add that stores the sink whatever the map holds.
AddOverwrites(subs, channel, sink) ==
    [subs |-> [c \in (DOMAIN subs) \cup {channel} |->
                    IF c = channel THEN sink ELSE subs[c]],
     err |-> NoErr]

Add(subs, channel, sink) ==
    IF channel \notin DOMAIN subs
    THEN [subs |-> subs @@ (channel :> sink), err |-> NoErr]
    ELSE [subs |-> subs, err |-> <<"already subscribed">>]

\* A Remove that leaves the map as it is.
RemoveNothing(subs, channel) == subs

Remove(subs, channel) == [c \in (DOMAIN subs) \ {channel} |-> subs[c]]

\* A Get that falls back on the first user sink for an absent channel.
GetWithFallback(subs, channel) ==
    IF channel \in DOMAIN subs
    THEN [sink |-> subs[channel], err |-> NoErr]
    ELSE [sink |-> "s1", err |-> NoErr]

Get(subs, channel) ==
    IF channel \in DOMAIN subs
    THEN [sink |-> subs[channel], err |-> NoErr]
    ELSE [sink |-> "nil", err |-> <<"has no subscriptions">>]

\* The loop over subReqs after a successful Subscribe: it stops at the first
\* Add that fails, the earlier ones staying in the map.
RECURSIVE AddAll(_, _)
AddAll(subs, subReqs) ==
    IF subReqs = <<>>
    THEN [subs |-> subs, err |-> NoErr]
    ELSE LET a == Add(subs, Head(subReqs).subscription, Head(subReqs).msgChan)
         IN  IF a.err # NoErr THEN a ELSE AddAll(a.subs, Tail(subReqs))

RECURSIVE RemoveAll(_, _)
RemoveAll(subs, channels) ==
    IF channels = <<>>
    THEN subs
    ELSE RemoveAll(Remove(subs, Head(channels)), Tail(channels))

\* ------------------------------------------------------------------- state
VARIABLES
    currentState,               \* ConnectionStateMachine.currentState
    clientID,                   \* clientState.clientID
    subscriptions,              \* subscriptionsMap.subs: Channel -> sink
    subscribeRequestChannel,    \* queue of subscriptionRequest
    unsubscribeRequestChannel,  \* queue of Channel
    connectRequestChannel,      \* number of queued /meta/connect requests
    connectMessageChannel,      \* queue of batches for the internal sink
    closed,                     \* Client.Disconnect has closed the queues
    pc,                         \* where the task started by Start stands
    pending,                    \* the batch of the request in flight (for an
                                \* unsubscribe request its channels, no sink)
    delayTasks,                 \* advice-delay tasks that have not fired yet
    ctxDone,                    \* the context given to Start is cancelled
    errors,                     \* what was published on the error sink
    panicked,                   \* a task of the process has panicked
    userDisc,                   \* where the caller of Client.Disconnect stands
    discErr,                    \* what the last Client.Disconnect returned
    sinkLog,                    \* per user sink, the batches sent to it
    \* history of the run, read by the properties only
    nSubscribe, nUnsubscribe, nDisconnect,
    nHandshake,                 \* /meta/handshake requests sent
    nHandshakeOK,               \* Handshake calls that returned no error
    nConnect,                   \* /meta/connect requests sent
    connectInFlight,            \* Connect calls sent and not yet returned
    discSent,                   \* clientId of each /meta/disconnect request
    handshakeIDs,               \* clientId of each successful handshake response
    handshakeReply,             \* status and decoded messages of the last handshake response
    failedChannels,             \* Channels of the last Subscription- or UnsubscribeFailedError
    refused,                    \* the last subscribe or unsubscribe response held a
                                \* message of the request with successful = false
    lastMs,                     \* the messages the last Connect returned
    adviceSeen,                 \* "handshake" and "none" advice received from Connect
    confirmed,                  \* channels of successful /meta/subscribe responses
    unsubConfirmed,             \* channels of successful /meta/unsubscribe responses
    firstSink,                  \* per channel, the sink of the first Subscribe call
    csmEvents, csmErrs,         \* SpecCSM: the events processed, their results
    \* SpecExt: BayeuxClient.request and parseResponse with extensions
    exts,                       \* BayeuxClient.exts, in registration order
    useErr,                     \* what the last UseExtension returned
    extPc,                      \* "idle", or "awaiting" the response of a request
    reqMs,                      \* the batch the last request was called with
    wire,                       \* the encoded body of the last request
    outLog,                     \* Outgoing calls of the last request, in order
    inLog,                      \* Incoming calls of the last response, in order
    received,                   \* the messages the last parseResponse returned
    nRequests,                  \* requests made
    \* SpecSM: the subscriptionsMap on its own
    smSubs,                     \* subscriptionsMap.subs
    smLog,                      \* the calls made on it and what they returned
    \* SpecChannel: Channel.IsValid and Channel.Match
    chSelf,                     \* the Channel calls are made on
    chOther,                    \* the argument of Match
    chMatch,                    \* what the last call on chSelf did
    \* SpecQueue: SubscribeWithContext and UnsubscribeWithContext
    wcSub,                      \* subscribeRequestChannel of an idle Client
    wcUnsub,                    \* unsubscribeRequestChannel of an idle Client
    wcExpired,                  \* the context of the last call had expired
    wcErr,                      \* the last call and what it returned
    \* SpecBuilder: SubscribeRequestBuilder and UnsubscribeRequestBuilder
    bKind,                      \* the channel of the envelopes the builder makes
    bClientID,                  \* builder.clientID
    bSubscription,              \* builder.subscription
    bAdded,                     \* the channels given to AddSubscription so far
    bLast,                      \* the last call and what it returned
    \* history of the poll loop
    lastEnqueue,                \* what the last enqueueConnectRequest did
    preStart,                   \* the channels of the Subscribe calls made before Start
    \* SpecConc: ProcessEvent called from several tasks
    ccState,                    \* ConnectionStateMachine.currentState
    ccTasks,                    \* per task: where its ProcessEvent call is
    \* SpecBC: the calls of BayeuxClient made one after the other
    bcState,                    \* stateMachine.currentState
    bcClientID,                 \* state.clientID
    bcLast,                     \* the last call, whether it sent a request, its error
    bcCalls                     \* the calls made so far

clientVars ==
    <<currentState, clientID, subscriptions, subscribeRequestChannel,
      unsubscribeRequestChannel, connectRequestChannel, connectMessageChannel,
      closed, pc, pending, delayTasks, ctxDone, errors, panicked, userDisc,
      discErr, sinkLog>>

historyVars ==
    <<nSubscribe, nUnsubscribe, nDisconnect, nHandshake, nHandshakeOK, nConnect,
      connectInFlight, discSent, handshakeIDs, handshakeReply, lastMs, adviceSeen, confirmed,
      unsubConfirmed, firstSink>>

csmVars == <<csmEvents, csmErrs>>

extVars == <<exts, useErr, extPc, reqMs, wire, outLog, inLog, received, nRequests>>

smVars == <<smSubs, smLog>>

chanVars == <<chSelf, chOther, chMatch>>

wcVars == <<wcSub, wcUnsub, wcExpired, wcErr>>

bldVars == <<bKind, bClientID, bSubscription, bAdded, bLast>>

loopVars == <<lastEnqueue, preStart>>

ccVars == <<ccState, ccTasks>>

bcVars == <<bcState, bcClientID, bcLast, bcCalls>>

moreVars == <<bldVars, loopVars, ccVars, bcVars>>

\* The variables of the specifications of single components.
unitVars == <<smVars, chanVars, wcVars, moreVars>>

\* What the properties read of the last subscribe or unsubscribe call.
batchVars == <<failedChannels, refused>>

vars == <<clientVars, historyVars, batchVars, csmVars, extVars, unitVars>>

Init ==
    /\ currentState = unconnected
    /\ clientID = ""
    /\ subscriptions = <<>>
    /\ subscribeRequestChannel = <<>>
    /\ unsubscribeRequestChannel = <<>>
    /\ connectRequestChannel = 0
    /\ connectMessageChannel = <<>>
    /\ closed = FALSE
    /\ pc = "idle"
    /\ pending = <<>>
    /\ delayTasks = 0
    /\ ctxDone = FALSE
    /\ errors = <<>>
    /\ panicked = FALSE
    /\ userDisc = "idle"
    /\ discErr = NoErr
    /\ sinkLog = [s \in UserSinks |-> <<>>]
    /\ nSubscribe = 0
    /\ nUnsubscribe = 0
    /\ nDisconnect = 0
    /\ nHandshake = 0
    /\ nHandshakeOK = 0
    /\ nConnect = 0
    /\ connectInFlight = 0
    /\ discSent = <<>>
    /\ handshakeIDs = <<>>
    /\ handshakeReply = [status |-> TransportError, body |-> <<>>]
    /\ failedChannels = <<>>
    /\ refused = FALSE
    /\ lastMs = <<>>
    /\ adviceSeen = {}
    /\ confirmed = {}
    /\ unsubConfirmed = {}
    /\ firstSink = <<>>
    /\ csmEvents = <<>>
    /\ csmErrs = <<>>
    /\ exts = <<>>
    /\ useErr = NoErr
    /\ extPc = "idle"
    /\ reqMs = <<>>
    /\ wire = <<>>
    /\ outLog = <<>>
    /\ inLog = <<>>
    /\ received = <<>>
    /\ nRequests = 0
    /\ smSubs = <<>>
    /\ smLog = <<>>
    /\ chSelf = <<>>
    /\ chOther = <<>>
    /\ chMatch = NoMatch
    /\ wcSub = <<>>
    /\ wcUnsub = <<>>
    /\ wcExpired = FALSE
    /\ wcErr = [op |-> "none", err |-> NoErr]
    /\ bKind = MetaSubscribe
    /\ bClientID = ""
    /\ bSubscription = <<>>
    /\ bAdded = <<>>
    /\ bLast = [op |-> "New", err |-> NoErr, ms |-> <<>>]
    /\ lastEnqueue = "none"
    /\ preStart = {}
    /\ ccState = unconnected
    /\ ccTasks = [t \in Tasks |-> NoCall]
    /\ bcState = unconnected
    /\ bcClientID = ""
    /\ bcLast = [op |-> "none", sent |-> FALSE, err |-> NoErr]
    /\ bcCalls = 0

\* ------------------------------------------------------ what the server says
HandshakeMessages ==
    {Message(ch, ok, cid, emptyChannel, "retry") :
        ch \in {MetaHandshake, MetaConnect}, ok \in BOOLEAN, cid \in ClientIDs}

HandshakeReplies ==
    {Reply(TransportError, <<>>), Reply(400, ErrorBody)}
        \cup {Reply(200, b) : b \in SeqsUpTo(HandshakeMessages, 2)}

Event(ch) == Message(ch, TRUE, "abc", emptyChannel, NilAdvice)

ConnectMessage(ok, adv) == Message(MetaConnect, ok, "abc", emptyChannel, adv)

\* The bodies of the /meta/connect responses tried: an event alone; a run of
\* two events followed by an event of another channel; an event before the
\* /meta/connect message (the order of the test server) and after it, under
\* each advice; a failed connect; nothing.
ConnectBodies ==
    {<<>>, <<Event(Foo)>>,
     <<Event(Foo), Event(Foo), Event(Bar)>>,
     <<ConnectMessage(FALSE, "retry")>>}
        \cup {<<Event(Foo), ConnectMessage(TRUE, adv)>> : adv \in {"retry"}}
        \cup {<<ConnectMessage(TRUE, adv), Event(Foo)>> :
                adv \in {NilAdvice, "retry", "handshake", "none"}}

ConnectReplies ==
    {Reply(TransportError, <<>>), Reply(400, ErrorBody)}
        \cup {Reply(200, b) : b \in ConnectBodies}

\* Replies to a /meta/subscribe, /meta/unsubscribe or /meta/disconnect request
\* about the channels chs: at most one message per envelope sent.
BatchReplies(meta, chs) ==
    {Reply(TransportError, <<>>), Reply(400, ErrorBody)}
        \cup {Reply(200, b) :
                b \in SeqsUpTo({Message(meta, ok, "abc", c, NilAdvice) :
                                    ok \in BOOLEAN, c \in chs}, Cardinality(chs))}

\* The response was decoded and holds a message on meta with successful = false.
Refused(meta, reply) ==
    \E i \in 1..Len(parseResponse(reply).body) :
        /\ parseResponse(reply).body[i].channel = meta
        /\ ~parseResponse(reply).body[i].successful

Succeeded(meta, reply) ==
    {m.subscription : m \in {x \in Range(parseResponse(reply).body) :
                                x.channel = meta /\ x.successful}}

\* ------------------------------------------------------------ Client helpers
\* The channels the caller subscribes to and unsubscribes from; Bar is a
\* channel the server sends events on and nobody subscribes to.
UserChannels == {Foo, MetaConnect}

\* A send that is made whatever the slot holds.
enqueueConnectRequestAlways(q) == q + 1

\* enqueueConnectRequest on an open queue: a non-blocking send, dropped when
\* the slot is taken.
enqueueConnectRequest(q) == IF q < ConnectRequestCap THEN q + 1 ELSE q

\* The branch enqueueConnectRequest takes: the send, or the default case.
Enqueued(q) == IF q < ConnectRequestCap THEN "queued" ELSE "dropped"

\* A sink that hands out the newest batch first.
SendBatchInFront(q, batch) == <<batch>> \o q

\* msgChan <- batch
SendBatch(q, batch) == Append(q, batch)

\* The messages of the k-th Connect call, each marked with its place <<k, i>>.
Stamp(ms, k) == [i \in 1..Len(ms) |-> [ms[i] EXCEPT !.seq = <<k, i>>]]

\* The delivery loop of poll over the messages Connect returned. st holds the
\* loop's batch and lastChannel, the internal queue, the user sinks, and how
\* the loop ended: "ok", "error" (Get failed), "blocked" (the internal queue
\* is full and the sender is its only receiver) or "panic" (send on a closed
\* queue).
RECURSIVE Deliver(_, _, _, _)
Deliver(ms, subs, isClosed, st) ==
    IF ms = <<>> \/ st.status # "ok"
    THEN st
    ELSE LET m == Head(ms)
             g == Get(subs, st.lastChannel)
             next == [st EXCEPT !.lastChannel = m.channel, !.batch = <<m>>]
         IN  IF st.lastChannel = emptyChannel
             THEN Deliver(Tail(ms), subs, isClosed,
                          [st EXCEPT !.lastChannel = m.channel,
                                     !.batch = Append(@, m)])
             ELSE IF st.lastChannel = m.channel
             THEN Deliver(Tail(ms), subs, isClosed,
                          [st EXCEPT !.batch = Append(@, m)])
             ELSE IF g.err # NoErr
             THEN [st EXCEPT !.status = "error", !.err = g.err]
             ELSE IF g.sink = ConnectSink
             THEN IF isClosed
                  THEN [st EXCEPT !.status = "panic"]
                  ELSE IF Len(st.cmc) >= ConnectMessageCap
                  THEN [st EXCEPT !.status = "blocked"]
                  ELSE Deliver(Tail(ms), subs, isClosed,
                               [next EXCEPT !.cmc = SendBatch(@, st.batch)])
             ELSE Deliver(Tail(ms), subs, isClosed,
                          [next EXCEPT !.log[g.sink] = SendBatch(@, st.batch)])

\* The loop of poll over one batch taken from the internal queue: the number
\* of advice-delay tasks it starts and how it ends: "ok", "blocked" (send on
\* the unbuffered handshake queue, whose only receiver is the sender) or
\* "panic" (nil Advice, or the handshake queue is closed).
RECURSIVE HandleConnectBatch(_, _, _)
HandleConnectBatch(ms, isClosed, st) ==
    IF ms = <<>> \/ st.status # "ok"
    THEN st
    ELSE LET m == Head(ms)
         IN  IF m.advice = NilAdvice
             THEN [st EXCEPT !.status = "panic"]
             ELSE IF ShouldHandshake(m.advice)
             THEN [st EXCEPT !.status = IF isClosed THEN "panic" ELSE "blocked"]
             ELSE HandleConnectBatch(Tail(ms), isClosed,
                                     [st EXCEPT !.spawned = @ + 1])

\* The select of poll: which cases can proceed. A receive from a closed queue
\* always can; the shutdown queue is never closed nor sent on.
\* A loop that comes back to its select while BayeuxClient.Connect runs.
TaskAtSelectOrInConnect == pc \in {"select", "connect"}

\* A loop that goes on after start has published the error of poll.
TaskAtSelectOrDone == pc \in {"select", "done"}

TaskAtSelect == pc = "select"

\* A select that never sees a queued subscribe request.
SubscribeNeverReady == closed

SubscribeReady == closed \/ subscribeRequestChannel # <<>>
UnsubscribeReady == closed \/ unsubscribeRequestChannel # <<>>
HandshakeRequestReady == closed
ConnectMessageReady == closed \/ connectMessageChannel # <<>>
ConnectRequestReady == closed \/ connectRequestChannel > 0

\* A request of the poll task made with a cancelled context fails in the
\* transport.
Answers(reply) == ctxDone => reply.status = TransportError

\* ------------------------------------------------------------- caller actions
\* The calls the caller has made so far: Subscribe, Unsubscribe, Disconnect
\* (the one in progress included) and the cancellation of the context.
Calls ==
    nSubscribe + nUnsubscribe + nDisconnect
        + (IF userDisc = "wait" THEN 1 ELSE 0) + (IF ctxDone THEN 1 ELSE 0)

\* Client.Subscribe: a blocking send on the subscribe queue.
Subscribe(ch, sink) ==
    /\ ~panicked
    /\ nSubscribe < MaxSubscribes
    /\ Calls < MaxCalls
    /\ closed \/ Len(subscribeRequestChannel) < SubscribeQueueCap
    /\ nSubscribe' = nSubscribe + 1
    /\ firstSink' = IF ch \in DOMAIN firstSink THEN firstSink
                    ELSE firstSink @@ (ch :> sink)
    /\ IF closed
       THEN panicked' = TRUE /\ UNCHANGED subscribeRequestChannel
       ELSE /\ subscribeRequestChannel' =
                    Append(subscribeRequestChannel,
                           [subscription |-> ch, msgChan |-> sink])
            /\ UNCHANGED panicked
    /\ preStart' = IF pc = "idle" THEN preStart \cup {ch} ELSE preStart
    /\ UNCHANGED lastEnqueue
    /\ UNCHANGED <<currentState, clientID, subscriptions, unsubscribeRequestChannel,
                   connectRequestChannel, connectMessageChannel, closed, pc, pending,
                   delayTasks, ctxDone, errors, userDisc, discErr, sinkLog,
                   nUnsubscribe, nDisconnect, nHandshake, nHandshakeOK, nConnect,
                   connectInFlight, discSent, handshakeIDs, handshakeReply, lastMs, adviceSeen,
                   confirmed, unsubConfirmed, csmVars, batchVars, extVars, smVars, chanVars, wcVars, bldVars, ccVars, bcVars>>

\* Client.Unsubscribe: a blocking send on the unsubscribe queue.
Unsubscribe(ch) ==
    /\ ~panicked
    /\ nUnsubscribe < MaxUnsubscribes
    /\ Calls < MaxCalls
    /\ closed \/ Len(unsubscribeRequestChannel) < UnsubscribeQueueCap
    /\ nUnsubscribe' = nUnsubscribe + 1
    /\ IF closed
       THEN panicked' = TRUE /\ UNCHANGED unsubscribeRequestChannel
       ELSE /\ unsubscribeRequestChannel' = Append(unsubscribeRequestChannel, ch)
            /\ UNCHANGED panicked
    /\ UNCHANGED <<currentState, clientID, subscriptions, subscribeRequestChannel,
                   connectRequestChannel, connectMessageChannel, closed, pc, pending,
                   delayTasks, ctxDone, errors, userDisc, discErr, sinkLog,
                   nSubscribe, nDisconnect, nHandshake, nHandshakeOK, nConnect,
                   connectInFlight, discSent, handshakeIDs, handshakeReply, lastMs, adviceSeen,
                   confirmed, unsubConfirmed, csmVars, batchVars, extVars, unitVars, firstSink>>

\* The caller cancels the context given to Start.
Cancel ==
    /\ ~panicked
    /\ ~ctxDone
    /\ Calls < MaxCalls
    /\ ctxDone' = TRUE
    /\ UNCHANGED <<currentState, clientID, subscriptions, subscribeRequestChannel,
                   unsubscribeRequestChannel, connectRequestChannel,
                   connectMessageChannel, closed, pc, pending, delayTasks, errors,
                   panicked, userDisc, discErr, sinkLog, historyVars, csmVars, batchVars, extVars, unitVars>>

\* Client.Disconnect up to the /meta/disconnect request: when the client is
\* not connected BayeuxClient.Disconnect returns at once and the queues are
\* closed in the same step. Closing a closed queue panics.
Disconnect ==
    /\ ~panicked
    /\ userDisc = "idle"
    /\ nDisconnect < MaxDisconnects
    /\ Calls < MaxCalls
    /\ IF NotConnected(currentState, clientID)
       THEN /\ discErr' = Wrap("DisconnectFailedError", ErrClientNotConnected)
            /\ nDisconnect' = nDisconnect + 1
            /\ IF closed
               THEN panicked' = TRUE /\ UNCHANGED closed
               ELSE closed' = TRUE /\ UNCHANGED panicked
            /\ UNCHANGED <<userDisc, discSent>>
       ELSE /\ userDisc' = "wait"
            /\ discSent' = Append(discSent, clientID)
            /\ UNCHANGED <<discErr, nDisconnect, closed, panicked>>
    /\ UNCHANGED <<currentState, clientID, subscriptions, subscribeRequestChannel,
                   unsubscribeRequestChannel, connectRequestChannel,
                   connectMessageChannel, pc, pending, delayTasks, ctxDone, errors,
                   sinkLog, nSubscribe, nUnsubscribe, nHandshake, nHandshakeOK,
                   nConnect, connectInFlight, handshakeIDs, handshakeReply, lastMs, adviceSeen,
                   confirmed, unsubConfirmed, csmVars, batchVars, extVars, unitVars, firstSink>>

\* Client.Disconnect from the response on: the queues are closed whatever
\* BayeuxClient.Disconnect returned.
DisconnectReturn(reply) ==
    /\ ~panicked
    /\ userDisc = "wait"
    /\ userDisc' = "idle"
    /\ discErr' = BatchResponse("DisconnectFailedError", MetaDisconnect, reply)
    /\ nDisconnect' = nDisconnect + 1
    /\ IF closed
       THEN panicked' = TRUE /\ UNCHANGED closed
       ELSE closed' = TRUE /\ UNCHANGED panicked
    /\ UNCHANGED <<currentState, clientID, subscriptions, subscribeRequestChannel,
                   unsubscribeRequestChannel, connectRequestChannel,
                   connectMessageChannel, pc, pending, delayTasks, ctxDone, errors,
                   sinkLog, nSubscribe, nUnsubscribe, nHandshake, nHandshakeOK,
                   nConnect, connectInFlight, discSent, handshakeIDs, handshakeReply, lastMs,
                   adviceSeen, confirmed, unsubConfirmed, csmVars, batchVars, extVars, unitVars, firstSink>>

\* ------------------------------------------------------- the task of Start
\* Start, up to the handshake request of BayeuxClient.Handshake.
Start ==
    /\ ~panicked
    /\ pc = "idle"
    /\ LET r == ProcessEvent(currentState, handshakeSent)
       IN  IF r.err # NoErr
           THEN /\ pc' = "done"
                /\ errors' = Append(errors, Wrap("HandshakeFailedError", r.err))
                /\ UNCHANGED <<currentState, nHandshake>>
           ELSE /\ pc' = "start_handshake"
                /\ currentState' = r.state
                /\ nHandshake' = nHandshake + 1
                /\ UNCHANGED errors
    /\ UNCHANGED <<clientID, subscriptions, subscribeRequestChannel,
                   unsubscribeRequestChannel, connectRequestChannel,
                   connectMessageChannel, closed, pending, delayTasks, ctxDone,
                   panicked, userDisc, discErr, sinkLog, nSubscribe, nUnsubscribe,
                   nDisconnect, nHandshakeOK, nConnect, connectInFlight, discSent,
                   handshakeIDs, handshakeReply, lastMs, adviceSeen, confirmed, unsubConfirmed,
                   csmVars, batchVars, extVars, unitVars, firstSink>>

\* BayeuxClient.Handshake from the response on, then what its caller does:
\* start registers the internal sink and enters poll; the re-handshake case
\* of poll enqueues a connect request.
HandshakeReturn(reply) ==
    /\ ~panicked
    /\ pc \in {"start_handshake", "poll_handshake"}
    /\ Answers(reply)
    /\ handshakeReply' = [status |-> reply.status, body |-> parseResponse(reply).body]
    /\ LET h == HandshakeResponse(reply)
       IN  IF h.err # NoErr
           THEN /\ pc' = "done"
                /\ errors' = Append(errors, h.err)
                /\ UNCHANGED <<currentState, clientID, subscriptions,
                               connectRequestChannel, panicked, nHandshakeOK,
                               handshakeIDs>>
           ELSE /\ clientID' = h.clientId
                /\ currentState' =
                        ProcessEvent(currentState, successfullyConnected).state
                /\ nHandshakeOK' = nHandshakeOK + 1
                /\ handshakeIDs' = Append(handshakeIDs, h.clientId)
                /\ UNCHANGED errors
                /\ IF pc = "start_handshake"
                   THEN /\ subscriptions' =
                                Add(subscriptions, MetaConnect, ConnectSink).subs
                        /\ pc' = "select"
                        /\ UNCHANGED <<connectRequestChannel, panicked>>
                   ELSE /\ UNCHANGED subscriptions
                        /\ IF closed
                           THEN /\ panicked' = TRUE
                                /\ UNCHANGED <<pc, connectRequestChannel>>
                           ELSE /\ pc' = "select"
                                /\ connectRequestChannel' =
                                        enqueueConnectRequest(connectRequestChannel)
                                /\ UNCHANGED panicked
    /\ lastEnqueue' =
            IF HandshakeResponse(reply).err = NoErr /\ pc = "poll_handshake" /\ ~closed
            THEN Enqueued(connectRequestChannel) ELSE lastEnqueue
    /\ UNCHANGED preStart
    /\ UNCHANGED <<subscribeRequestChannel, unsubscribeRequestChannel,
                   connectMessageChannel, closed, pending, delayTasks, ctxDone,
                   userDisc, discErr, sinkLog, nSubscribe, nUnsubscribe, nDisconnect,
                   nHandshake, nConnect, connectInFlight, discSent, lastMs,
                   adviceSeen, confirmed, unsubConfirmed, csmVars, batchVars, extVars, smVars, chanVars, wcVars, bldVars, ccVars, bcVars, firstSink>>

\* poll, case <-ctx.Done(): ctx.Err() is returned and published.
PollContextDone ==
    /\ ~panicked
    /\ TaskAtSelect
    /\ ctxDone
    /\ pc' = "done"
    /\ errors' = Append(errors, <<"context canceled">>)
    /\ UNCHANGED <<currentState, clientID, subscriptions, subscribeRequestChannel,
                   unsubscribeRequestChannel, connectRequestChannel,
                   connectMessageChannel, closed, pending, delayTasks, ctxDone,
                   panicked, userDisc, discErr, sinkLog, historyVars, csmVars, batchVars, extVars, unitVars>>

\* poll, case subReq := <-c.subscribeRequestChannel, up to the request of
\* BayeuxClient.Subscribe. On a closed queue getSubscriptionRequests never
\* reaches its default case: the task spins in it.
PollSubscribe ==
    /\ ~panicked
    /\ TaskAtSelect
    /\ SubscribeReady
    /\ subscribeRequestChannel' = <<>>
    /\ IF closed
       THEN /\ pc' = "spin"
            /\ UNCHANGED <<pending, errors, failedChannels, refused>>
       ELSE LET subReqs == Tail(subscribeRequestChannel)
                                \o <<Head(subscribeRequestChannel)>>
                channels == [i \in 1..Len(subReqs) |-> subReqs[i].subscription]
                err == BatchPrecheck("SubscriptionFailedError", currentState,
                                     clientID, channels)
            IN  IF err # NoErr
                THEN /\ pc' = "done"
                     /\ errors' = Append(errors, err)
                     /\ failedChannels' = channels
                     /\ UNCHANGED <<pending, refused>>
                ELSE /\ pc' = "subscribe"
                     /\ pending' = subReqs
                     /\ UNCHANGED <<errors, failedChannels, refused>>
    /\ UNCHANGED <<currentState, clientID, subscriptions, unsubscribeRequestChannel,
                   connectRequestChannel, connectMessageChannel, closed, delayTasks,
                   ctxDone, panicked, userDisc, discErr, sinkLog, historyVars,
                   csmVars, extVars, unitVars>>

\* poll, the subscribe case from the response on: the sinks are added and a
\* connect request is enqueued.
PollSubscribeReturn(reply) ==
    /\ ~panicked
    /\ pc = "subscribe"
    /\ Answers(reply)
    /\ pending' = <<>>
    /\ confirmed' = confirmed \cup Succeeded(MetaSubscribe, reply)
    /\ refused' = Refused(MetaSubscribe, reply)
    /\ LET err == BatchResponse("SubscriptionFailedError", MetaSubscribe, reply)
           a == AddAll(subscriptions, pending)
       IN  IF err # NoErr
           THEN /\ pc' = "done"
                /\ errors' = Append(errors, err)
                /\ failedChannels' =
                        [i \in 1..Len(pending) |-> pending[i].subscription]
                /\ UNCHANGED <<subscriptions, connectRequestChannel, panicked>>
           ELSE /\ subscriptions' = a.subs
                /\ UNCHANGED failedChannels
                /\ IF a.err # NoErr
                   THEN /\ pc' = "done"
                        /\ errors' = Append(errors, a.err)
                        /\ UNCHANGED <<connectRequestChannel, panicked>>
                   ELSE IF closed
                   THEN /\ panicked' = TRUE
                        /\ UNCHANGED <<pc, errors, connectRequestChannel>>
                   ELSE /\ pc' = "select"
                        /\ connectRequestChannel' =
                                enqueueConnectRequest(connectRequestChannel)
                        /\ UNCHANGED <<errors, panicked>>
    /\ lastEnqueue' =
            IF /\ BatchResponse("SubscriptionFailedError", MetaSubscribe, reply) = NoErr
               /\ AddAll(subscriptions, pending).err = NoErr
               /\ ~closed
            THEN Enqueued(connectRequestChannel) ELSE lastEnqueue
    /\ UNCHANGED preStart
    /\ UNCHANGED <<currentState, clientID, subscribeRequestChannel,
                   unsubscribeRequestChannel, connectMessageChannel, closed,
                   delayTasks, ctxDone, userDisc, discErr, sinkLog, nSubscribe,
                   nUnsubscribe, nDisconnect, nHandshake, nHandshakeOK, nConnect,
                   connectInFlight, discSent, handshakeIDs, handshakeReply, lastMs, adviceSeen,
                   unsubConfirmed, csmVars, extVars, smVars, chanVars, wcVars, bldVars, ccVars, bcVars, firstSink>>

\* poll, case unsubReq := <-c.unsubscribeRequestChannel, up to the request of
\* BayeuxClient.Unsubscribe.
PollUnsubscribe ==
    /\ ~panicked
    /\ TaskAtSelect
    /\ UnsubscribeReady
    /\ unsubscribeRequestChannel' = <<>>
    /\ IF closed
       THEN /\ pc' = "spin"
            /\ UNCHANGED <<pending, errors, failedChannels, refused>>
       ELSE LET channels == Tail(unsubscribeRequestChannel)
                                \o <<Head(unsubscribeRequestChannel)>>
                err == BatchPrecheck("UnsubscribeFailedError", currentState,
                                     clientID, channels)
            IN  IF err # NoErr
                THEN /\ pc' = "done"
                     /\ errors' = Append(errors, err)
                     /\ failedChannels' = channels
                     /\ UNCHANGED <<pending, refused>>
                ELSE /\ pc' = "unsubscribe"
                     /\ pending' = [i \in 1..Len(channels) |->
                                        [subscription |-> channels[i], msgChan |-> ""]]
                     /\ UNCHANGED <<errors, failedChannels, refused>>
    /\ UNCHANGED <<currentState, clientID, subscriptions, subscribeRequestChannel,
                   connectRequestChannel, connectMessageChannel, closed, delayTasks,
                   ctxDone, panicked, userDisc, discErr, sinkLog, historyVars,
                   csmVars, extVars, unitVars>>

\* poll, the unsubscribe case from the response on: the channels are removed.
PollUnsubscribeReturn(reply) ==
    /\ ~panicked
    /\ pc = "unsubscribe"
    /\ Answers(reply)
    /\ pending' = <<>>
    /\ unsubConfirmed' = unsubConfirmed \cup Succeeded(MetaUnsubscribe, reply)
    /\ refused' = Refused(MetaUnsubscribe, reply)
    /\ LET err == BatchResponse("UnsubscribeFailedError", MetaUnsubscribe, reply)
       IN  IF err # NoErr
           THEN /\ pc' = "done"
                /\ errors' = Append(errors, err)
                /\ failedChannels' =
                        [i \in 1..Len(pending) |-> pending[i].subscription]
                /\ UNCHANGED subscriptions
           ELSE /\ pc' = "select"
                /\ UNCHANGED failedChannels
                /\ subscriptions' =
                        RemoveAll(subscriptions,
                                  [i \in 1..Len(pending) |-> pending[i].subscription])
                /\ UNCHANGED errors
    /\ UNCHANGED <<currentState, clientID, subscribeRequestChannel,
                   unsubscribeRequestChannel, connectRequestChannel,
                   connectMessageChannel, closed, delayTasks, ctxDone, panicked,
                   userDisc, discErr, sinkLog, nSubscribe, nUnsubscribe, nDisconnect,
                   nHandshake, nHandshakeOK, nConnect, connectInFlight, discSent,
                   handshakeIDs, handshakeReply, lastMs, adviceSeen, confirmed, csmVars, extVars, unitVars,
                   firstSink>>

\* poll, case <-c.handshakeRequestChannel, up to the handshake request. The
\* queue is unbuffered and the task is its only sender, so the receive can
\* proceed only on the closed queue.
PollHandshakeRequest ==
    /\ ~panicked
    /\ TaskAtSelect
    /\ HandshakeRequestReady
    /\ LET r == ProcessEvent(currentState, handshakeSent)
       IN  IF r.err # NoErr
           THEN /\ pc' = "done"
                /\ errors' = Append(errors, Wrap("HandshakeFailedError", r.err))
                /\ UNCHANGED <<currentState, nHandshake>>
           ELSE /\ pc' = "poll_handshake"
                /\ currentState' = r.state
                /\ nHandshake' = nHandshake + 1
                /\ UNCHANGED errors
    /\ UNCHANGED <<clientID, subscriptions, subscribeRequestChannel,
                   unsubscribeRequestChannel, connectRequestChannel,
                   connectMessageChannel, closed, pending, delayTasks, ctxDone,
                   panicked, userDisc, discErr, sinkLog, nSubscribe, nUnsubscribe,
                   nDisconnect, nHandshakeOK, nConnect, connectInFlight, discSent,
                   handshakeIDs, handshakeReply, lastMs, adviceSeen, confirmed, unsubConfirmed,
                   csmVars, batchVars, extVars, unitVars, firstSink>>

\* poll, case ms := <-c.connectMessageChannel: the whole loop over ms. On the
\* closed and drained queue ms is nil.
PollConnectMessages ==
    /\ ~panicked
    /\ TaskAtSelect
    /\ ConnectMessageReady
    /\ LET ms == IF connectMessageChannel # <<>>
                 THEN Head(connectMessageChannel) ELSE <<>>
           h == HandleConnectBatch(ms, closed, [status |-> "ok", spawned |-> 0])
       IN  /\ connectMessageChannel' =
                    IF connectMessageChannel # <<>>
                    THEN Tail(connectMessageChannel) ELSE <<>>
           /\ delayTasks' = delayTasks + h.spawned
           /\ IF h.status = "panic"
              THEN panicked' = TRUE /\ UNCHANGED pc
              ELSE /\ pc' = IF h.status = "blocked"
                            THEN "blocked_handshake_send" ELSE "select"
                   /\ UNCHANGED panicked
    /\ UNCHANGED <<currentState, clientID, subscriptions, subscribeRequestChannel,
                   unsubscribeRequestChannel, connectRequestChannel, closed, pending,
                   ctxDone, errors, userDisc, discErr, sinkLog, historyVars,
                   csmVars, batchVars, extVars, unitVars>>

\* poll, case <-c.connectRequestChannel, up to the /meta/connect request of
\* BayeuxClient.Connect.
PollConnectRequest ==
    /\ ~panicked
    /\ TaskAtSelect
    /\ ConnectRequestReady
    /\ nConnect < MaxConnects
    /\ connectRequestChannel' =
            IF connectRequestChannel > 0 THEN connectRequestChannel - 1 ELSE 0
    /\ IF NotConnected(currentState, clientID)
       THEN /\ pc' = "done"
            /\ errors' = Append(errors, ErrClientNotConnected)
            /\ UNCHANGED <<nConnect, connectInFlight>>
       ELSE /\ pc' = "connect"
            /\ nConnect' = nConnect + 1
            /\ connectInFlight' = connectInFlight + 1
            /\ UNCHANGED errors
    /\ UNCHANGED <<currentState, clientID, subscriptions, subscribeRequestChannel,
                   unsubscribeRequestChannel, connectMessageChannel, closed, pending,
                   delayTasks, ctxDone, panicked, userDisc, discErr, sinkLog,
                   nSubscribe, nUnsubscribe, nDisconnect, nHandshake, nHandshakeOK,
                   discSent, handshakeIDs, handshakeReply, lastMs, adviceSeen, confirmed,
                   unsubConfirmed, csmVars, batchVars, extVars, unitVars, firstSink>>

\* poll, the connect case from the response on: the whole delivery loop.
PollConnectReturn(reply) ==
    /\ ~panicked
    /\ pc = "connect"
    /\ Answers(reply)
    /\ connectInFlight' = connectInFlight - 1
    /\ adviceSeen' = adviceSeen \cup
            {m.advice : m \in {x \in Range(parseResponse(reply).body) :
                                    x.advice \in {"handshake", "none"}}}
    /\ LET r == ConnectResponse(reply)
           ms == Stamp(r.ms, nConnect)
           d == Deliver(ms, subscriptions, closed,
                        [batch |-> <<>>, lastChannel |-> emptyChannel,
                         cmc |-> connectMessageChannel, log |-> sinkLog,
                         status |-> "ok", err |-> NoErr])
       IN  IF r.err # NoErr
           THEN /\ pc' = "done"
                /\ errors' = Append(errors, r.err)
                /\ UNCHANGED <<connectMessageChannel, sinkLog, panicked, lastMs>>
           ELSE /\ lastMs' = ms
                /\ connectMessageChannel' = d.cmc
                /\ sinkLog' = d.log
                /\ IF d.status = "panic"
                   THEN panicked' = TRUE /\ UNCHANGED <<pc, errors>>
                   ELSE IF d.status = "error"
                   THEN /\ pc' = "done"
                        /\ errors' = Append(errors, d.err)
                        /\ UNCHANGED panicked
                   ELSE /\ pc' = IF d.status = "blocked"
                                 THEN "blocked_connect_send" ELSE "select"
                        /\ UNCHANGED <<errors, panicked>>
    /\ UNCHANGED <<currentState, clientID, subscriptions, subscribeRequestChannel,
                   unsubscribeRequestChannel, connectRequestChannel, closed, pending,
                   delayTasks, ctxDone, userDisc, discErr, nSubscribe, nUnsubscribe,
                   nDisconnect, nHandshake, nHandshakeOK, nConnect, discSent,
                   handshakeIDs, handshakeReply, confirmed, unsubConfirmed, csmVars, batchVars, extVars, unitVars, firstSink>>

\* poll, the default case of the select: taken when no other case can
\* proceed.
PollDefault ==
    /\ ~panicked
    /\ TaskAtSelect
    /\ ~ctxDone
    /\ ~SubscribeReady
    /\ ~UnsubscribeReady
    /\ ~HandshakeRequestReady
    /\ ~ConnectMessageReady
    /\ ~ConnectRequestReady
    /\ connectRequestChannel' = enqueueConnectRequest(connectRequestChannel)
    /\ lastEnqueue' = Enqueued(connectRequestChannel)
    /\ UNCHANGED preStart
    /\ UNCHANGED <<currentState, clientID, subscriptions, subscribeRequestChannel,
                   unsubscribeRequestChannel, connectMessageChannel, closed, pc,
                   pending, delayTasks, ctxDone, errors, panicked, userDisc, discErr,
                   sinkLog, historyVars, csmVars, batchVars, extVars, smVars, chanVars, wcVars, bldVars, ccVars, bcVars>>

\* An advice-delay task started by the connect-message case: its delay is
\* over and it calls enqueueConnectRequest. A send on a closed queue panics,
\* in a select with a default case too.
DelayFire ==
    /\ ~panicked
    /\ delayTasks > 0
    /\ delayTasks' = delayTasks - 1
    /\ IF closed
       THEN panicked' = TRUE /\ UNCHANGED connectRequestChannel
       ELSE /\ connectRequestChannel' = enqueueConnectRequest(connectRequestChannel)
            /\ UNCHANGED panicked
    /\ lastEnqueue' = IF closed THEN lastEnqueue ELSE Enqueued(connectRequestChannel)
    /\ UNCHANGED preStart
    /\ UNCHANGED <<currentState, clientID, subscriptions, subscribeRequestChannel,
                   unsubscribeRequestChannel, connectMessageChannel, closed, pc,
                   pending, ctxDone, errors, userDisc, discErr, sinkLog, historyVars,
                   csmVars, batchVars, extVars, smVars, chanVars, wcVars, bldVars, ccVars, bcVars>>

\* The poll task is blocked in a send and Client.Disconnect closes the queue.
BlockedSendPanics ==
    /\ ~panicked
    /\ pc \in {"blocked_handshake_send", "blocked_connect_send"}
    /\ closed
    /\ panicked' = TRUE
    /\ UNCHANGED <<currentState, clientID, subscriptions, subscribeRequestChannel,
                   unsubscribeRequestChannel, connectRequestChannel,
                   connectMessageChannel, closed, pc, pending, delayTasks, ctxDone,
                   errors, userDisc, discErr, sinkLog, historyVars, csmVars, batchVars, extVars, unitVars>>

\* ------------------------------------------------------------ specifications
\* The channels of the subscribe or unsubscribe request in flight.
PendingChannels ==
    IF pc \in {"subscribe", "unsubscribe"}
    THEN {pending[i].subscription : i \in 1..Len(pending)}
    ELSE {}

TaskNext ==
    \/ Start
    \/ \E reply \in HandshakeReplies : HandshakeReturn(reply)
    \/ PollContextDone
    \/ PollSubscribe
    \/ \E reply \in BatchReplies(MetaSubscribe, PendingChannels) :
            PollSubscribeReturn(reply)
    \/ PollUnsubscribe
    \/ \E reply \in BatchReplies(MetaUnsubscribe, PendingChannels) :
            PollUnsubscribeReturn(reply)
    \/ PollHandshakeRequest
    \/ PollConnectMessages
    \/ PollConnectRequest
    \/ \E reply \in ConnectReplies : PollConnectReturn(reply)
    \/ PollDefault
    \/ DelayFire
    \/ BlockedSendPanics

CallerNext ==
    \/ \E ch \in UserChannels, sink \in UserSinks : Subscribe(ch, sink)
    \/ \E ch \in UserChannels : Unsubscribe(ch)
    \/ Cancel
    \/ Disconnect
    \/ \E reply \in BatchReplies(MetaDisconnect, {emptyChannel}) :
            DisconnectReturn(reply)

Next == TaskNext \/ CallerNext

Spec == Init /\ [][Next]_vars

\* The tasks of the process run whenever they can and the transport answers.
FairSpec == Spec /\ WF_vars(TaskNext)

\* The state machine alone: any sequence of ProcessEvent calls.
Events == {handshakeSent, timeout, successfullyConnected, disconnectSent, "random"}

CallProcessEvent(e) ==
    /\ Len(csmEvents) < MaxEvents
    /\ currentState' = ProcessEvent(currentState, e).state
    /\ csmEvents' = Append(csmEvents, e)
    /\ csmErrs' = Append(csmErrs, ProcessEvent(currentState, e).err)
    /\ UNCHANGED <<clientID, subscriptions, subscribeRequestChannel,
                   unsubscribeRequestChannel, connectRequestChannel,
                   connectMessageChannel, closed, pc, pending, delayTasks, ctxDone,
                   errors, panicked, userDisc, discErr, sinkLog, historyVars,
                   batchVars, extVars, unitVars>>

NextCSM == \E e \in Events : CallProcessEvent(e)

SpecCSM == Init /\ [][NextCSM]_vars

\* ------------------------------------------- extensions (BayeuxClient.exts)
\* The MessageExtender values a caller registers.
Extensions == {"e1", "e2"}

\* Message.Ext: a nil map, or a map given by its keys.
NilExt == [present |-> FALSE, keys |-> {}]

\* The messages of the batches the protocol calls hand to request; none of
\* them sets Ext.
RequestMessages ==
    {[channel |-> c, ext |-> NilExt] : c \in {MetaHandshake, MetaSubscribe, MetaConnect}}

RequestBatches == SeqsUpTo(RequestMessages, MaxBatch) \ {<<>>}

\* The messages of a response body; the server may attach an ext mapping.
ResponseMessages ==
    {[channel |-> c, ext |-> x] :
        c \in {MetaHandshake, Foo},
        x \in {NilExt, [present |-> TRUE, keys |-> {"e1"}]}}

ResponseReplies ==
    {Reply(200, b) : b \in SeqsUpTo(ResponseMessages, MaxBatch)}
        \cup {Reply(400, ErrorBody), Reply(TransportError, <<>>)}

\* Message.GetExt: the message after the call.
GetExt(m, create) ==
    IF ~m.ext.present /\ create
    THEN [m EXCEPT !.ext = [present |-> TRUE, keys |-> {}]]
    ELSE m

\* Outgoing of extension e (the shape of the replay extension before the
\* server has announced support): the message the hook was given, after it.
Outgoing(e, m) ==
    IF m.channel = MetaHandshake
    THEN [GetExt(m, TRUE) EXCEPT !.ext.keys = @ \cup {e}]
    ELSE m

\* `for _, m := range ms { ext.Outgoing(&m) }`: the hook is given the address
\* of the loop variable, a copy of ms[i]. A map that ms[i] already holds is
\* shared with the copy; a map the hook creates belongs to the copy alone.
LoopCopy(orig, hooked) ==
    IF orig.ext.present THEN [orig EXCEPT !.ext = hooked.ext] ELSE orig

\* The batch after the inner loop has run extension e over it.
RangeLoop(ms, e) ==
    [i \in 1..Len(ms) |-> LoopCopy(ms[i], Outgoing(e, ms[i]))]

RECURSIVE RunOutgoing(_, _)
\* The batch after the outer loop over the registered extensions.
RunOutgoing(es, ms) ==
    IF es = <<>> THEN ms ELSE RunOutgoing(Tail(es), RangeLoop(ms, Head(es)))

\* json encoding of a batch: `ext` is omitted when the map is nil or empty.
Encode(ms) ==
    [i \in 1..Len(ms) |->
        [channel |-> ms[i].channel,
         ext |-> IF ms[i].ext.present /\ ms[i].ext.keys # {}
                 THEN ms[i].ext ELSE NilExt]]

HookCallsLastFirst(es, n) ==
    [j \in 1..(Len(es) * n) |->
        <<es[Len(es) - ((j - 1) \div n)], ((j - 1) % n) + 1>>]

\* The hook calls of the two nested loops over es and a batch of n messages:
\* <<extension, index of the message>>, in the order the calls are made.
HookCalls(es, n) ==
    [j \in 1..(Len(es) * n) |-> <<es[((j - 1) \div n) + 1], ((j - 1) % n) + 1>>]

UseExtensionAlways(e) ==
    /\ exts' = Append(exts, e)
    /\ useErr' = NoErr
    /\ UNCHANGED <<extPc, reqMs, wire, outLog, inLog, received, nRequests,
                   clientVars, historyVars, csmVars, batchVars,
                   unitVars>>

UseExtension(e) ==
    /\ IF e \in Range(exts)
       THEN /\ useErr' = <<"AlreadyRegisteredError", e>>
            /\ UNCHANGED exts
       ELSE /\ exts' = Append(exts, e)
            /\ useErr' = NoErr
    /\ UNCHANGED <<extPc, reqMs, wire, outLog, inLog, received, nRequests,
                   clientVars, historyVars, csmVars, batchVars,
                   unitVars>>

\* BayeuxClient.request up to handing the encoded body to the transport.
Request(ms) ==
    /\ extPc = "idle"
    /\ nRequests < MaxRequests
    /\ reqMs' = ms
    /\ outLog' = HookCalls(exts, Len(ms))
    /\ wire' = Encode(RunOutgoing(exts, ms))
    /\ extPc' = "awaiting"
    /\ nRequests' = nRequests + 1
    /\ UNCHANGED <<exts, useErr, inLog, received, clientVars, historyVars, csmVars, batchVars,
                   unitVars>>

\* The transport returns and, without a transport error, parseResponse runs.
Response(reply) ==
    /\ extPc = "awaiting"
    /\ received' = parseResponse(reply).body
    /\ inLog' = HookCalls(exts, Len(parseResponse(reply).body))
    /\ extPc' = "idle"
    /\ UNCHANGED <<exts, useErr, reqMs, wire, outLog, nRequests, clientVars,
                   historyVars, csmVars, batchVars, unitVars>>

NextExt ==
    \/ \E e \in Extensions : UseExtension(e)
    \/ \E ms \in RequestBatches : Request(ms)
    \/ \E reply \in ResponseReplies : Response(reply)

SpecExt == Init /\ [][NextExt]_vars

\* ------------------------------------------------- subscriptionsMap alone
SMChannels == {Foo, Bar}

SMAdd(channel, sink) ==
    /\ Len(smLog) < MaxOps
    /\ smSubs' = Add(smSubs, channel, sink).subs
    /\ smLog' = Append(smLog, [op |-> "Add", channel |-> channel, sink |-> sink,
                               err |-> Add(smSubs, channel, sink).err])
    /\ UNCHANGED <<clientVars, historyVars, csmVars, batchVars, extVars, chanVars, wcVars, moreVars>>

SMRemove(channel) ==
    /\ Len(smLog) < MaxOps
    /\ smSubs' = Remove(smSubs, channel)
    /\ smLog' = Append(smLog, [op |-> "Remove", channel |-> channel, sink |-> "nil",
                               err |-> NoErr])
    /\ UNCHANGED <<clientVars, historyVars, csmVars, batchVars, extVars, chanVars, wcVars, moreVars>>

SMGet(channel) ==
    /\ Len(smLog) < MaxOps
    /\ smLog' = Append(smLog, [op |-> "Get", channel |-> channel,
                               sink |-> Get(smSubs, channel).sink,
                               err |-> Get(smSubs, channel).err])
    /\ UNCHANGED <<smSubs, clientVars, historyVars, csmVars, batchVars, extVars, chanVars,
                   wcVars, moreVars>>

NextSM ==
    \/ \E c \in SMChannels : \E k \in UserSinks : SMAdd(c, k)
    \/ \E c \in SMChannels : SMRemove(c)
    \/ \E c \in SMChannels : SMGet(c)

SpecSM == Init /\ [][NextSM]_vars

\* ------------------------- SubscribeWithContext, UnsubscribeWithContext
DeadlineExceeded == <<"context deadline exceeded">>

\* A send that never finds the queue full.
SendWithContextUnbounded(q, cap, req, expired) ==
    [q |-> Append(q, req), err |-> NoErr, blocks |-> FALSE]

\* The send on a request queue of capacity cap under a context: the request
\* is enqueued when there is room; on a full queue the call returns the
\* context's error when the context has expired and waits otherwise.
SendWithContext(q, cap, req, expired) ==
    IF Len(q) < cap
    THEN [q |-> Append(q, req), err |-> NoErr, blocks |-> FALSE]
    ELSE IF expired
    THEN [q |-> q, err |-> DeadlineExceeded, blocks |-> FALSE]
    ELSE [q |-> q, err |-> NoErr, blocks |-> TRUE]

\* Client.SubscribeWithContext on a Client whose loop does not run.
SubscribeWithContext(expired) ==
    LET r == SendWithContext(wcSub, SubscribeQueueCap,
                             [subscription |-> Foo, msgChan |-> "s1"], expired)
    IN  /\ ~r.blocks
        /\ wcSub' = r.q
        /\ wcErr' = [op |-> "Subscribe", err |-> r.err]
        /\ wcExpired' = expired
        /\ UNCHANGED <<wcUnsub, clientVars, historyVars, csmVars, batchVars, extVars,
                       smVars, chanVars, moreVars>>

\* Client.UnsubscribeWithContext on a Client whose loop does not run.
UnsubscribeWithContext(expired) ==
    LET r == SendWithContext(wcUnsub, UnsubscribeQueueCap, Foo, expired)
    IN  /\ ~r.blocks
        /\ wcUnsub' = r.q
        /\ wcErr' = [op |-> "Unsubscribe", err |-> r.err]
        /\ wcExpired' = expired
        /\ UNCHANGED <<wcSub, clientVars, historyVars, csmVars, batchVars, extVars,
                       smVars, chanVars, moreVars>>

NextQueue ==
    \/ \E expired \in BOOLEAN : SubscribeWithContext(expired)
    \/ \E expired \in BOOLEAN : UnsubscribeWithContext(expired)

SpecQueue == Init /\ [][NextQueue]_vars

\* ------------------------------------------------------------------ properties
\* The transition table of the state machine, as a function of state and event.
TableStep(s, e) ==
    CASE e = handshakeSent /\ s = unconnected -> connecting
      [] e = successfullyConnected /\ s = connecting -> connected
      [] e = timeout -> unconnected
      [] e = disconnectSent /\ s \in {connecting, connected} -> unconnected
      [] OTHER -> s

RECURSIVE Fold(_, _)
Fold(s, es) == IF es = <<>> THEN s ELSE Fold(TableStep(s, Head(es)), Tail(es))

\* C1: starting from UNCONNECTED, after any sequence of ProcessEvent calls the
\* state is the fold of the transition table over the events; timeout and
\* disconnectSent never return an error; IsConnected is true iff the state is
\* CONNECTED and CurrentState names exactly the state.
C1_StateIsFoldOfTable ==
    /\ currentState = Fold(unconnected, csmEvents)
    /\ \A i \in 1..Len(csmEvents) :
            csmEvents[i] \in {timeout, disconnectSent} => csmErrs[i] = NoErr
    /\ IsConnected(currentState) <=> currentState = connected
    /\ CurrentState(currentState) =
            CASE currentState = unconnected -> "UNCONNECTED"
              [] currentState = connecting -> "CONNECTING"
              [] currentState = connected -> "CONNECTED"

\* C1 witness: a no-op disconnectSent, a timeout, then the two accepted steps
\* up to CONNECTED.
C1_Witness ==
    /\ csmEvents = <<disconnectSent, timeout, handshakeSent, successfullyConnected>>
    /\ IsConnected(currentState)
    /\ CurrentState(currentState) = "CONNECTED"

\* C2: a ProcessEvent call with an invalid transition returns its typed error
\* and leaves the state unchanged: handshakeSent outside UNCONNECTED returns
\* BadHandshakeError, successfullyConnected outside CONNECTING returns
\* BadConnectionError, an unknown event returns UnknownEventTypeError in
\* every state.
C2_InvalidTransitionRejected ==
    [][\A e \in Events :
            csmEvents' = Append(csmEvents, e) =>
                LET err == csmErrs'[Len(csmErrs')]
                IN  /\ (e = handshakeSent /\ currentState \in {connecting, connected})
                            => (err = <<"BadHandshakeError">>
                                    /\ currentState' = currentState)
                    /\ (e = successfullyConnected
                            /\ currentState \in {unconnected, connected})
                            => (err = <<"BadConnectionError">>
                                    /\ currentState' = currentState)
                    /\ (e \notin {handshakeSent, timeout, successfullyConnected,
                                  disconnectSent})
                            => (err = <<"UnknownEventTypeError">>
                                    /\ currentState' = currentState)]_vars

\* C2 witness: the three typed errors were returned in one run, the last one
\* in CONNECTING.
C2_Witness ==
    /\ csmEvents = <<successfullyConnected, handshakeSent, handshakeSent, "random">>
    /\ csmErrs = <<<<"BadConnectionError">>, NoErr, <<"BadHandshakeError">>,
                   <<"UnknownEventTypeError">>>>
    /\ currentState = connecting

\* C3: at most one /meta/connect request is in flight.
C3_OneConnectInFlight == connectInFlight <= 1

\* C3 witness: a second /meta/connect is in flight after the first returned,
\* a Subscribe call having been made.
C3_Witness ==
    /\ connectInFlight = 1
    /\ nConnect = 2
    /\ nSubscribe >= 1

\* C4: the stored clientId is non-empty iff the state machine is CONNECTED.
\* (Storing the clientId and the successfullyConnected transition are one
\* step of HandshakeReturn, so the allowed exception is no state here.)
C4_ClientIdIffConnected == (clientID # "") <=> IsConnected(currentState)

\* C5: after a Disconnect that returned no error, a /meta/disconnect request
\* carrying the clientId recorded at handshake has been sent and the state
\* machine is UNCONNECTED.
C5_DisconnectEndsUnconnected ==
    (nDisconnect >= 1 /\ discErr = NoErr) =>
        /\ discSent # <<>>
        /\ handshakeIDs # <<>>
        /\ discSent[Len(discSent)] = handshakeIDs[Len(handshakeIDs)]
        /\ currentState = unconnected

\* C6: once a /meta/connect response with advice reconnect = "handshake" was
\* received, a second handshake eventually succeeds, unless the caller shut
\* the client down or the task ended with an error.
C6_AdviceHandshakeRehandshakes ==
    ("handshake" \in adviceSeen) ~>
        (nHandshakeOK >= 2 \/ ctxDone \/ closed \/ panicked \/ pc = "done")

\* The maximal run of equal channel around the i-th message of ms.
RunOf(ms, i) ==
    LET same(a, b) == \A j \in a..b : ms[j].channel = ms[i].channel
        first == CHOOSE a \in 1..i :
                    same(a, i) /\ (a = 1 \/ ms[a - 1].channel # ms[i].channel)
        last == CHOOSE b \in i..Len(ms) :
                    same(i, b) /\ (b = Len(ms) \/ ms[b + 1].channel # ms[i].channel)
    IN  SubSeq(ms, first, last)

\* C7: when Connect returned a message list and the delivery loop ended
\* without error, every message whose channel has a user sink registered was
\* delivered to that sink, its maximal run of equal channel as one batch.
C7_EveryRunDelivered ==
    [][(pc = "connect" /\ pc' = "select") =>
            \A i \in 1..Len(lastMs') :
                LET ch == lastMs'[i].channel
                IN  (ch \in DOMAIN subscriptions /\ subscriptions[ch] \in UserSinks)
                        => \E k \in 1..Len(sinkLog'[subscriptions[ch]]) :
                                /\ k > Len(sinkLog[subscriptions[ch]])
                                /\ sinkLog'[subscriptions[ch]][k] = RunOf(lastMs', i)]_vars

\* The messages of a sequence of batches, in order.
RECURSIVE Flatten(_)
Flatten(bs) == IF bs = <<>> THEN <<>> ELSE Head(bs) \o Flatten(Tail(bs))

\* <<call, place>> of a before that of b.
Before(a, b) == a[1] < b[1] \/ (a[1] = b[1] /\ a[2] < b[2])

InOrder(bs) ==
    LET f == Flatten(bs)
    IN  \A i, j \in 1..Len(f) : i < j => Before(f[i].seq, f[j].seq)

\* C8: in every sink, the internal one included, the messages stand in the
\* order of the Connect calls and, within one call, in the order of the
\* list the call returned.
C8_DeliveryInOrder ==
    /\ \A s \in UserSinks : InOrder(sinkLog[s])
    /\ InOrder(connectMessageChannel)

\* C8 witness: one sink holds a batch of two messages of the first Connect
\* call followed by a batch of the second call.
C8_Witness ==
    \E s \in UserSinks :
        /\ Len(sinkLog[s]) = 2
        /\ Len(sinkLog[s][1]) = 2
        /\ sinkLog[s][1][1].seq[1] = 1
        /\ sinkLog[s][2][1].seq[1] = 2

\* C9: a channel enters the registry with a user sink only when a
\* /meta/subscribe response with successful = true was received for it, and
\* leaves the registry only when a /meta/unsubscribe response with
\* successful = true was received for it or Disconnect was called.
C9_RegistryFollowsConfirmations ==
    [][\A c \in UserChannels :
            /\ (/\ c \in DOMAIN subscriptions'
                /\ subscriptions'[c] \in UserSinks
                /\ ~(c \in DOMAIN subscriptions /\ subscriptions[c] \in UserSinks))
                    => c \in confirmed'
            /\ (c \in DOMAIN subscriptions /\ c \notin DOMAIN subscriptions')
                    => (c \in unsubConfirmed' \/ nDisconnect >= 1)]_vars

\* C10: once an advice with reconnect = "none" was received, no further
\* /meta/connect and no further /meta/handshake request is sent (checked
\* while the caller has not shut the client down).
C10_NoRequestAfterAdviceNone ==
    [][("none" \in adviceSeen /\ ~closed /\ ~ctxDone /\ userDisc = "idle") =>
            (nConnect' = nConnect /\ nHandshake' = nHandshake)]_vars

\* An error of a /meta/connect call that failed in the transport or with a
\* response other than 200.
TransientConnectFailure(e) ==
    /\ Len(e) >= 2
    /\ e[1] = "ConnectionFailedError"
    /\ e[2] \in {"transport error", "BadResponseError"}

\* C11: after the first /meta/connect call failed in the transport or with a
\* non-200 response, a later /meta/connect request is eventually sent, unless
\* the caller shut the client down meanwhile.
C11_PollingSurvivesConnectFailure ==
    (nConnect = 1 /\ \E i \in 1..Len(errors) : TransientConnectFailure(errors[i]))
        ~> (nConnect >= 2 \/ ctxDone \/ closed \/ panicked)

\* C12: once Client.Disconnect has closed the queues while the task is in its
\* loop, the loop eventually stops.
C12_LoopStopsAfterDisconnect ==
    (closed /\ pc = "select") ~> (pc = "done" \/ panicked)

\* C13: a Subscribe, Unsubscribe or Disconnect call made after a
\* Client.Disconnect has returned raises no panic.
C13_CallsAfterDisconnectReturn ==
    [][(closed /\ (nSubscribe' > nSubscribe \/ nUnsubscribe' > nUnsubscribe
                        \/ nDisconnect' > nDisconnect))
            => ~panicked']_vars

\* C14: when a /meta/unsubscribe request was answered without error, its
\* channels are absent from the registry; and a batch reaches a user sink
\* only in a step before which the sink is registered for some channel, so
\* that nothing is delivered to the sink of an unsubscribed channel.
C14_NoDeliveryAfterUnsubscribe ==
    [][/\ (pc = "unsubscribe" /\ pc' = "select")
            => \A i \in 1..Len(pending) :
                    pending[i].subscription \notin DOMAIN subscriptions'
       /\ \A s \in UserSinks :
            sinkLog'[s] # sinkLog[s]
                => \E c \in DOMAIN subscriptions : subscriptions[c] = s]_vars

\* C14 witness: a sink received a batch, its channel /foo was then
\* unsubscribed with a successful response and removed, and a further
\* /meta/connect call is in flight.
C14_Witness ==
    /\ Foo \in unsubConfirmed
    /\ Foo \notin DOMAIN subscriptions
    /\ \E s \in UserSinks : sinkLog[s] # <<>>
    /\ pc = "connect"
    /\ nConnect = 2

\* C15: while nothing was unsubscribed, a channel registered with a user
\* sink holds the sink of the first Subscribe call made for that channel.
C15_FirstSubscribeWins ==
    nUnsubscribe = 0 =>
        \A c \in DOMAIN subscriptions :
            subscriptions[c] \in UserSinks => subscriptions[c] = firstSink[c]

\* C17: when the startup handshake was answered with HTTP 400, exactly one
\* error is published, it is the BadResponse (400, "Bad Request", body)
\* wrapped in HandshakeFailed, and no /meta/connect request was sent and no
\* /meta/subscribe response was received.
C17_HandshakeBadResponse ==
    (/\ errors # <<>>
     /\ Len(errors[1]) >= 3
     /\ SubSeq(errors[1], 1, 3) = <<"HandshakeFailedError", "BadResponseError", "400">>)
        => /\ errors = <<<<"HandshakeFailedError", "BadResponseError", "400",
                           "Bad Request", ErrorBody>>>>
           /\ pc = "done"
           /\ nConnect = 0
           /\ confirmed = {}

\* C18: when the context given to Start is cancelled while a /meta/connect
\* call is in flight, the step on which the call returns ends the poll loop
\* and publishes the cancellation cause itself, unchanged, as the error.
C18_CancellationSurfacesVerbatim ==
    [][(ctxDone /\ pc = "connect" /\ pc' # "connect")
            => /\ pc' = "done"
               /\ errors' = Append(errors, <<"context canceled">>)]_vars

\* Each pair of an extension of es and a message index of 1..n occurs exactly
\* once in log, no other call does, and for two extensions the call of the
\* one registered first on a message precedes the call of the other on it.
OnceInOrder(log, es, n) ==
    /\ Len(log) = Len(es) * n
    /\ \A k \in 1..Len(es) : \A i \in 1..n :
           Cardinality({j \in 1..Len(log) : log[j] = <<es[k], i>>}) = 1
    /\ \A k1 \in 1..Len(es) : \A k2 \in 1..Len(es) : \A i \in 1..n :
           k1 < k2 =>
               \A j1 \in 1..Len(log) : \A j2 \in 1..Len(log) :
                   (log[j1] = <<es[k1], i>> /\ log[j2] = <<es[k2], i>>) => j1 < j2

\* C19: on every request and on every parsed response each registered
\* extension's hook runs exactly once on each message, and the hook of an
\* extension registered earlier runs on a message before the hook of one
\* registered later, in the outgoing and in the incoming direction.
C19_ExtensionsOnceInRegistrationOrder ==
    [][/\ nRequests' > nRequests => OnceInOrder(outLog', exts, Len(reqMs'))
       /\ (extPc = "awaiting" /\ extPc' = "idle")
            => OnceInOrder(inLog', exts, Len(received'))]_vars

C19_Witness ==
    /\ Len(exts) = 2
    /\ extPc = "idle"
    /\ Len(reqMs) = 2
    /\ Len(outLog) = 4
    /\ Len(received) = 2
    /\ Len(inLog) = 4

\* C20: what an Outgoing hook puts into a message's ext mapping, also when
\* the hook had to create the mapping with GetExt(true), is in the encoded
\* body of the request.
C20_OutgoingChangeOnTheWire ==
    \A j \in 1..Len(outLog) :
        reqMs[outLog[j][2]].channel = MetaHandshake
            => /\ wire[outLog[j][2]].ext.present
               /\ outLog[j][1] \in wire[outLog[j][2]].ext.keys

\* C16: a second Subscribe to a channel does not stop the client: the step
\* that publishes the "already subscribed" error leaves the poll loop at its
\* select, from where it goes on issuing /meta/connect requests and
\* delivering batches (every error being accepted by the ignore-error
\* predicate).
C16_DoubleSubscribeKeepsPolling ==
    [][(/\ pc = "subscribe"
        /\ \E i \in 1..Len(pending) :
              /\ pending[i].subscription = Foo
              /\ \/ Foo \in DOMAIN subscriptions
                 \/ \E j \in 1..Len(pending) :
                        j # i /\ pending[j].subscription = Foo
        /\ Len(errors') > Len(errors)
        /\ errors'[Len(errors')] = <<"already subscribed">>)
            => pc' = "select"]_vars

\* No extension occurs twice in the pipeline es.
NoDuplicates(es) ==
    \A i \in 1..Len(es) : \A j \in 1..Len(es) : es[i] = es[j] => i = j

\* C21: UseExtension appends a new extension at the end of the pipeline;
\* registering one that is already in it returns AlreadyRegisteredError and
\* leaves members and order of the pipeline unchanged; no extension is ever
\* in the pipeline twice.
C21_UseExtensionAppendsOrRejects ==
    [][/\ exts' # exts
            => /\ Len(exts') = Len(exts) + 1
               /\ SubSeq(exts', 1, Len(exts)) = exts
               /\ exts'[Len(exts')] \notin Range(exts)
               /\ useErr' = NoErr
       /\ (useErr' # useErr /\ useErr' # NoErr)
            => /\ exts' = exts
               /\ useErr'[1] = "AlreadyRegisteredError"
               /\ useErr'[2] \in Range(exts)
       /\ NoDuplicates(exts')]_vars

C21_Witness ==
    /\ Len(exts) = 2
    /\ useErr = <<"AlreadyRegisteredError", exts[1]>>

RECURSIVE LastSink(_, _)
\* The sink of the last successful Add on channel in log that no Remove of
\* the channel follows; "nil" when there is none.
LastSink(log, channel) ==
    IF log = <<>>
    THEN "nil"
    ELSE LET e == log[Len(log)]
         IN  IF e.channel = channel /\ e.op = "Remove"
             THEN "nil"
             ELSE IF e.channel = channel /\ e.op = "Add" /\ e.err = NoErr
             THEN e.sink
             ELSE LastSink(SubSeq(log, 1, Len(log) - 1), channel)

\* C22: Add on a channel that has a sink returns an error and leaves the map
\* as it is, and succeeds otherwise; Remove of an absent channel changes
\* nothing and a second Remove changes nothing more; Get returns the sink of
\* the last successful Add that no Remove followed, and an error when there
\* is none.
C22_RegistryOperations ==
    [][Len(smLog') > Len(smLog) =>
        LET e == smLog'[Len(smLog')]
        IN  /\ (e.op = "Add" /\ e.channel \in DOMAIN smSubs)
                => (e.err # NoErr /\ smSubs' = smSubs)
            /\ (e.op = "Add" /\ e.channel \notin DOMAIN smSubs)
                => (e.err = NoErr /\ smSubs'[e.channel] = e.sink)
            /\ (e.op = "Remove" /\ e.channel \notin DOMAIN smSubs)
                => smSubs' = smSubs
            /\ e.op = "Remove"
                => (/\ e.channel \notin DOMAIN smSubs'
                    /\ Remove(smSubs', e.channel) = smSubs')
            /\ e.op = "Get"
                => /\ e.err = NoErr <=> LastSink(smLog, e.channel) # "nil"
                   /\ e.sink = LastSink(smLog, e.channel)]_vars

C22_Witness ==
    /\ \E i \in 1..Len(smLog) : smLog[i].op = "Add" /\ smLog[i].err # NoErr
    /\ \E i \in 1..Len(smLog) :
          /\ smLog[i].op = "Remove"
          /\ LastSink(SubSeq(smLog, 1, i - 1), smLog[i].channel) = "nil"
    /\ \E i \in 1..Len(smLog) :
          smLog[i].op = "Get" /\ smLog[i].sink \in UserSinks

\* The error the step has published, NoErr when it published none.
Published == IF Len(errors') > Len(errors) THEN errors'[Len(errors')] ELSE NoErr

NoRequestSent ==
    /\ nConnect' = nConnect
    /\ discSent' = discSent
    /\ pc' \notin {"connect", "subscribe", "unsubscribe"}
    /\ userDisc' # "wait"
    /\ currentState' = currentState
    /\ clientID' = clientID

\* C24: when the state is not CONNECTED or the stored clientId is empty, the
\* steps on which the loop calls Connect, Subscribe or Unsubscribe and the
\* step on which the caller's Disconnect calls BayeuxClient.Disconnect return
\* the client-not-connected error (bare for Connect, wrapped in the error of
\* the operation for the others), send no request and leave state and
\* clientId unchanged.
C24_NotConnectedCallsRejected ==
    [][(currentState # connected \/ clientID = "") =>
        /\ (pc = "select" /\ connectRequestChannel' < connectRequestChannel)
            => (Published = ErrClientNotConnected /\ NoRequestSent)
        /\ (pc = "select" /\ ~closed /\ subscribeRequestChannel # <<>>
                /\ subscribeRequestChannel' = <<>>)
            => /\ Published = Wrap("SubscriptionFailedError", ErrClientNotConnected)
               /\ NoRequestSent
        /\ (pc = "select" /\ ~closed /\ unsubscribeRequestChannel # <<>>
                /\ unsubscribeRequestChannel' = <<>>)
            => /\ Published = Wrap("UnsubscribeFailedError", ErrClientNotConnected)
               /\ NoRequestSent
        /\ (userDisc = "idle" /\ (nDisconnect' > nDisconnect \/ userDisc' = "wait"))
            => /\ discErr' = Wrap("DisconnectFailedError", ErrClientNotConnected)
               /\ NoRequestSent]_vars

C24_Witness ==
    /\ currentState = connected
    /\ clientID = ""
    /\ pc = "done"
    /\ errors = <<Wrap("UnsubscribeFailedError", ErrClientNotConnected)>>
    /\ discErr = Wrap("DisconnectFailedError", ErrClientNotConnected)
    /\ nConnect = 0

\* The channels of the request in flight, in the order they were sent.
Attempted == [i \in 1..Len(pending) |-> pending[i].subscription]

\* C25: when a /meta/subscribe response of the batch has successful = false,
\* Subscribe fails with SubscriptionFailedError listing all attempted
\* channels and the loop registers no sink of the batch (the registry is
\* unchanged); a refused Unsubscribe fails with UnsubscribeFailedError
\* likewise and removes no sink.
C25_RefusedBatchChangesNothing ==
    [][/\ (pc = "subscribe" /\ pending' = <<>> /\ refused')
            => /\ Published = <<"SubscriptionFailedError", "server error">>
               /\ failedChannels' = Attempted
               /\ subscriptions' = subscriptions
       /\ (pc = "unsubscribe" /\ pending' = <<>> /\ refused')
            => /\ Published = <<"UnsubscribeFailedError", "server error">>
               /\ failedChannels' = Attempted
               /\ subscriptions' = subscriptions]_vars

C25_Witness ==
    /\ refused
    /\ errors = <<<<"SubscriptionFailedError", "server error">>>>
    /\ Len(failedChannels) = 2
    /\ Foo \in confirmed
    /\ DOMAIN subscriptions = {MetaConnect}

\* C26: a sink receives a batch only of a channel it is registered for when
\* the delivery starts, and a sink enters the registry only on the step that
\* processes the /meta/subscribe response of a request holding its channel,
\* the Subscribe call on that response returning no error.
C26_NoDeliveryBeforeRegistration ==
    [][\A s \in UserSinks :
        /\ \A b \in Range(sinkLog'[s]) \ Range(sinkLog[s]) :
              /\ b[1].channel \in DOMAIN subscriptions
              /\ subscriptions[b[1].channel] = s
        /\ \A c \in UserChannels :
              (/\ c \in DOMAIN subscriptions'
               /\ subscriptions'[c] = s
               /\ ~(c \in DOMAIN subscriptions /\ subscriptions[c] = s))
                  => /\ pc = "subscribe"
                     /\ c \in Range(Attempted)
                     /\ ~refused'
                     /\ sinkLog'[s] = sinkLog[s]
                     /\ \/ Published = NoErr
                        \/ Published[1] # "SubscriptionFailedError"]_vars

C26_Witness ==
    /\ Foo \in DOMAIN subscriptions
    /\ subscriptions[Foo] = "s1"
    /\ sinkLog["s1"] # <<>>
    /\ sinkLog["s2"] = <<>>
    /\ nConnect = 1

\* ---------------------------------------------- concurrent ProcessEvent calls
\* One ProcessEvent call per task, one atomic operation per step. The first
\* operation of the call: the CompareAndSwap of handshakeSent and of
\* successfullyConnected, the Swap of timeout, the Load of disconnectSent.
ProcessEventFirst(t, e) ==
    /\ ccTasks[t].pc = "idle"
    /\ CASE e = handshakeSent ->
            IF ccState = unconnected
            THEN /\ ccState' = connecting
                 /\ ccTasks' = [ccTasks EXCEPT ![t] = [NoCall EXCEPT !.pc = "done", !.e = e]]
            ELSE /\ UNCHANGED ccState
                 /\ ccTasks' = [ccTasks EXCEPT ![t] =
                        [NoCall EXCEPT !.pc = "load", !.e = e, !.kind = "BadHandshakeError"]]
         [] e = timeout ->
            /\ ccState' = unconnected
            /\ ccTasks' = [ccTasks EXCEPT ![t] = [NoCall EXCEPT !.pc = "done", !.e = e]]
         [] e = successfullyConnected ->
            IF ccState = connecting
            THEN /\ ccState' = connected
                 /\ ccTasks' = [ccTasks EXCEPT ![t] = [NoCall EXCEPT !.pc = "done", !.e = e]]
            ELSE /\ UNCHANGED ccState
                 /\ ccTasks' = [ccTasks EXCEPT ![t] =
                        [NoCall EXCEPT !.pc = "load", !.e = e, !.kind = "BadConnectionError"]]
         [] e = disconnectSent ->
            /\ UNCHANGED ccState
            /\ ccTasks' = [ccTasks EXCEPT ![t] =
                    [NoCall EXCEPT !.pc = IF ccState = connected \/ ccState = connecting
                                         THEN "store" ELSE "done",
                                  !.e = e]]
         [] OTHER ->
            /\ UNCHANGED ccState
            /\ ccTasks' = [ccTasks EXCEPT ![t] =
                    [NoCall EXCEPT !.pc = "done", !.e = e,
                                  !.err = <<"UnknownEventTypeError">>]]
    /\ UNCHANGED <<clientVars, historyVars, csmVars, batchVars, extVars,
                   smVars, chanVars, wcVars, bldVars, loopVars, bcVars>>

\* atomic.LoadInt32 for the error of a failed CompareAndSwap: the error
\* carries the state it reads now.
ProcessEventLoad(t) ==
    /\ ccTasks[t].pc = "load"
    /\ ccTasks' = [ccTasks EXCEPT ![t].pc = "done",
                                  ![t].err = <<ccTasks[t].kind, CurrentState(ccState)>>]
    /\ UNCHANGED <<ccState, clientVars, historyVars, csmVars, batchVars, extVars,
                   smVars, chanVars, wcVars, bldVars, loopVars, bcVars>>

\* atomic.StoreInt32 of disconnectSent.
ProcessEventStore(t) ==
    /\ ccTasks[t].pc = "store"
    /\ ccState' = unconnected
    /\ ccTasks' = [ccTasks EXCEPT ![t].pc = "done"]
    /\ UNCHANGED <<clientVars, historyVars, csmVars, batchVars, extVars,
                   smVars, chanVars, wcVars, bldVars, loopVars, bcVars>>

NextConc ==
    \/ \E t \in Tasks, e \in Events : ProcessEventFirst(t, e)
    \/ \E t \in Tasks : ProcessEventLoad(t)
    \/ \E t \in Tasks : ProcessEventStore(t)

SpecConc == Init /\ [][NextConc]_vars

\* ------------------------------------------------------ BayeuxClient calls
\* A handshake that forgets the failed attempt: the state goes back to
\* unconnected when the request fails.
FailedHandshakeLeavesUnconnected(s) == unconnected

\* The state a Handshake leaves when it fails after the handshakeSent
\* transition: no event is processed on the error paths.
FailedHandshakeLeaves(s) == s

\* BayeuxClient.Handshake, the request and its response included.
BayeuxClientHandshake(reply) ==
    /\ bcCalls < MaxBCCalls
    /\ bcCalls' = bcCalls + 1
    /\ LET r == ProcessEvent(bcState, handshakeSent)
           h == HandshakeResponse(reply)
       IN  IF r.err # NoErr
           THEN /\ bcLast' = [op |-> "Handshake", sent |-> FALSE,
                              err |-> Wrap("HandshakeFailedError", r.err)]
                /\ UNCHANGED <<bcState, bcClientID>>
           ELSE IF h.err # NoErr
           THEN /\ bcLast' = [op |-> "Handshake", sent |-> TRUE, err |-> h.err]
                /\ bcState' = FailedHandshakeLeaves(r.state)
                /\ UNCHANGED bcClientID
           ELSE /\ bcLast' = [op |-> "Handshake", sent |-> TRUE, err |-> NoErr]
                /\ bcClientID' = h.clientId
                /\ bcState' = ProcessEvent(r.state, successfullyConnected).state
    /\ UNCHANGED <<clientVars, historyVars, csmVars, batchVars, extVars,
                   smVars, chanVars, wcVars, bldVars, loopVars, ccVars>>

\* BayeuxClient.Connect
BayeuxClientConnect(reply) ==
    /\ bcCalls < MaxBCCalls
    /\ bcCalls' = bcCalls + 1
    /\ bcLast' = IF NotConnected(bcState, bcClientID)
                 THEN [op |-> "Connect", sent |-> FALSE, err |-> ErrClientNotConnected]
                 ELSE [op |-> "Connect", sent |-> TRUE, err |-> ConnectResponse(reply).err]
    /\ UNCHANGED <<bcState, bcClientID>>
    /\ UNCHANGED <<clientVars, historyVars, csmVars, batchVars, extVars,
                   smVars, chanVars, wcVars, bldVars, loopVars, ccVars>>

\* BayeuxClient.Subscribe to /foo
BayeuxClientSubscribe(reply) ==
    /\ bcCalls < MaxBCCalls
    /\ bcCalls' = bcCalls + 1
    /\ LET pre == BatchPrecheck("SubscriptionFailedError", bcState, bcClientID, <<Foo>>)
       IN  bcLast' = IF pre # NoErr
                     THEN [op |-> "Subscribe", sent |-> FALSE, err |-> pre]
                     ELSE [op |-> "Subscribe", sent |-> TRUE,
                           err |-> BatchResponse("SubscriptionFailedError", MetaSubscribe, reply)]
    /\ UNCHANGED <<bcState, bcClientID>>
    /\ UNCHANGED <<clientVars, historyVars, csmVars, batchVars, extVars,
                   smVars, chanVars, wcVars, bldVars, loopVars, ccVars>>

\* BayeuxClient.Unsubscribe from /foo
BayeuxClientUnsubscribe(reply) ==
    /\ bcCalls < MaxBCCalls
    /\ bcCalls' = bcCalls + 1
    /\ LET pre == BatchPrecheck("UnsubscribeFailedError", bcState, bcClientID, <<Foo>>)
       IN  bcLast' = IF pre # NoErr
                     THEN [op |-> "Unsubscribe", sent |-> FALSE, err |-> pre]
                     ELSE [op |-> "Unsubscribe", sent |-> TRUE,
                           err |-> BatchResponse("UnsubscribeFailedError", MetaUnsubscribe, reply)]
    /\ UNCHANGED <<bcState, bcClientID>>
    /\ UNCHANGED <<clientVars, historyVars, csmVars, batchVars, extVars,
                   smVars, chanVars, wcVars, bldVars, loopVars, ccVars>>

\* BayeuxClient.Disconnect: no event is processed, whatever the response.
BayeuxClientDisconnect(reply) ==
    /\ bcCalls < MaxBCCalls
    /\ bcCalls' = bcCalls + 1
    /\ bcLast' = IF NotConnected(bcState, bcClientID)
                 THEN [op |-> "Disconnect", sent |-> FALSE,
                       err |-> Wrap("DisconnectFailedError", ErrClientNotConnected)]
                 ELSE [op |-> "Disconnect", sent |-> TRUE,
                       err |-> BatchResponse("DisconnectFailedError", MetaDisconnect, reply)]
    /\ UNCHANGED <<bcState, bcClientID>>
    /\ UNCHANGED <<clientVars, historyVars, csmVars, batchVars, extVars,
                   smVars, chanVars, wcVars, bldVars, loopVars, ccVars>>

NextBC ==
    \/ \E reply \in HandshakeReplies : BayeuxClientHandshake(reply)
    \/ \E reply \in ConnectReplies : BayeuxClientConnect(reply)
    \/ \E reply \in BatchReplies(MetaSubscribe, {Foo}) : BayeuxClientSubscribe(reply)
    \/ \E reply \in BatchReplies(MetaUnsubscribe, {Foo}) : BayeuxClientUnsubscribe(reply)
    \/ \E reply \in BatchReplies(MetaDisconnect, {emptyChannel}) :
            BayeuxClientDisconnect(reply)

SpecBC == Init /\ [][NextBC]_vars

\* ------------------------------------------------------- request builders
\* "foo" has no leading '/': not a valid channel.
BuilderChannels == {Foo, Bar, <<"foo">>}

NewBuilder(meta) ==
    /\ bKind' = meta
    /\ bClientID' = ""
    /\ bSubscription' = <<>>
    /\ bAdded' = <<>>
    /\ bLast' = [op |-> "New", err |-> NoErr, ms |-> <<>>]
    /\ UNCHANGED <<clientVars, historyVars, csmVars, batchVars, extVars,
                   smVars, chanVars, wcVars, loopVars, ccVars, bcVars>>

NewSubscribeRequestBuilder == NewBuilder(MetaSubscribe)

NewUnsubscribeRequestBuilder == NewBuilder(MetaUnsubscribe)

AddClientID(cid) ==
    /\ bClientID' = cid
    /\ bLast' = [op |-> "AddClientID", err |-> NoErr, ms |-> <<>>]
    /\ UNCHANGED <<bKind, bSubscription, bAdded, clientVars, historyVars, csmVars,
                   batchVars, extVars, smVars, chanVars, wcVars, loopVars, ccVars, bcVars>>

AddSubscription(c) ==
    /\ Len(bAdded) < MaxAdds
    /\ LET r == BuilderAdd(bSubscription, c)
       IN  /\ bSubscription' = r.subscription
           /\ bLast' = [op |-> "AddSubscription", err |-> r.err, ms |-> <<>>]
    /\ bAdded' = Append(bAdded, c)
    /\ UNCHANGED <<bKind, bClientID, clientVars, historyVars, csmVars,
                   batchVars, extVars, smVars, chanVars, wcVars, loopVars, ccVars, bcVars>>

Build ==
    /\ LET r == BuilderBuild(bKind, bClientID, bSubscription)
       IN  bLast' = [op |-> "Build", err |-> r.err, ms |-> r.ms]
    /\ UNCHANGED <<bKind, bClientID, bSubscription, bAdded, clientVars, historyVars,
                   csmVars, batchVars, extVars, smVars, chanVars, wcVars, loopVars, ccVars, bcVars>>

NextBuilder ==
    \/ NewSubscribeRequestBuilder
    \/ NewUnsubscribeRequestBuilder
    \/ \E cid \in ClientIDs : AddClientID(cid)
    \/ \E c \in BuilderChannels : AddSubscription(c)
    \/ Build

SpecBuilder == Init /\ [][NextBuilder]_vars

\* ------------------------------------------------------------ Channel calls
\* Channels are strings over ChannelBytes; the receiver holds up to MaxChanLen
\* bytes, the argument of Match up to MaxOtherLen.
ChannelBytes == {"/", "*", "a"}

\* Channel(s): one more byte of the receiver.
ExtendSelf(b) ==
    /\ Len(chSelf) < MaxChanLen
    /\ chSelf' = Append(chSelf, b)
    /\ chMatch' = NoMatch
    /\ UNCHANGED <<chOther, clientVars, historyVars, csmVars, batchVars, extVars,
                   smVars, wcVars, moreVars>>

\* Channel(s): one more byte of the argument.
ExtendOther(b) ==
    /\ Len(chOther) < MaxOtherLen
    /\ chOther' = Append(chOther, b)
    /\ chMatch' = NoMatch
    /\ UNCHANGED <<chSelf, clientVars, historyVars, csmVars, batchVars, extVars,
                   smVars, wcVars, moreVars>>

\* c.IsValid()
CallIsValid ==
    /\ chMatch' = [op |-> "IsValid", panics |-> FALSE, value |-> IsValid(chSelf)]
    /\ UNCHANGED <<chSelf, chOther, clientVars, historyVars, csmVars, batchVars, extVars,
                   smVars, wcVars, moreVars>>

\* c.Match(other)
CallMatch ==
    /\ LET r == Match(chSelf, chOther)
       IN  chMatch' = [op |-> "Match", panics |-> r.panics, value |-> r.value]
    /\ UNCHANGED <<chSelf, chOther, clientVars, historyVars, csmVars, batchVars, extVars,
                   smVars, wcVars, moreVars>>

\* c.Match(c)
CallMatchSelf ==
    /\ chOther' = chSelf
    /\ LET r == Match(chSelf, chSelf)
       IN  chMatch' = [op |-> "Match", panics |-> r.panics, value |-> r.value]
    /\ UNCHANGED <<chSelf, clientVars, historyVars, csmVars, batchVars, extVars,
                   smVars, wcVars, moreVars>>

NextChannel ==
    \/ \E b \in ChannelBytes : ExtendSelf(b)
    \/ \E b \in ChannelBytes : ExtendOther(b)
    \/ CallIsValid
    \/ CallMatch
    \/ CallMatchSelf

SpecChannel == Init /\ [][NextChannel]_vars

C28_ValidChannelMatchesItself ==
    (chMatch.op = "Match" /\ chOther = chSelf /\ IsValid(chSelf))
        => (~chMatch.panics /\ chMatch.value)

\* What the matching rules give for a pattern holding a '/': prefix is the
\* pattern up to and including its final '/', segment what follows it.
SegmentMatch(pattern, candidate) ==
    LET n == LastIndexByte(pattern, "/") + 1
        prefix == SubSeq(pattern, 1, n)
        segment == SubSeq(pattern, n + 1, Len(pattern))
        tail == SubSeq(candidate, n + 1, Len(candidate))
    IN  IF ~HasPrefix(candidate, prefix)
        THEN FALSE
        ELSE CASE segment = <<"*">> -> "/" \notin Range(tail)
               [] segment = <<"*", "*">> -> TRUE
               [] OTHER -> FALSE

\* C29: for a pattern with a wildcard, Match(candidate) returns for every
\* candidate (it never faults) and is false when the candidate does not
\* start with the pattern up to and including its final '/', true for a
\* final segment '*' iff the candidate's tail holds no '/', true for '**'
\* iff the candidate extends the prefix, false for any other final segment.
C29_WildcardMatchBySegment ==
    (chMatch.op = "Match" /\ HasWildcard(chSelf) /\ "/" \in Range(chSelf))
        => /\ ~chMatch.panics
           /\ chMatch.value = SegmentMatch(chSelf, chOther)

\* Begins with '/', and holds no '*' or holds its '*' only as a final
\* segment equal to '*' or '**'.
ValidBySegment(c) ==
    LET n == LastIndexByte(c, "/") + 1
        segment == SubSeq(c, n + 1, Len(c))
    IN  /\ Len(c) > 0
        /\ c[1] = "/"
        /\ \/ "*" \notin Range(c)
           \/ /\ segment \in {<<"*">>, <<"*", "*">>}
              /\ "*" \notin Range(SubSeq(c, 1, n))

\* C30: IsValid is true exactly for the channels that begin with '/' and
\* hold no '*' or hold '*' only as a final segment '*' or '**'; so
\* IsValid("/foo/***") and IsValid("/foo/*/bar") are false.
C30_IsValidExactly ==
    chMatch.op = "IsValid" => chMatch.value = ValidBySegment(chSelf)

\* The place of the first c in s.
FirstAt(s, c) == CHOOSE i \in 1..Len(s) : s[i] = c /\ \A j \in 1..(i - 1) : s[j] # c

\* C31: the builders reject an invalid channel and ignore a channel already
\* added; Build fails when the clientId is empty or no channel was added and
\* otherwise returns one envelope per distinct channel, in first-insertion
\* order, each with the clientId and that one channel as subscription.
C31_BuildersEnvelopes ==
    LET valid == {c \in Range(bAdded) : IsValid(c)}
    IN  /\ bLast.op = "AddSubscription"
            => (bLast.err # NoErr <=> ~IsValid(bAdded[Len(bAdded)]))
        /\ Range(bSubscription) = valid
        /\ \A i, j \in 1..Len(bSubscription) :
              i < j => FirstAt(bAdded, bSubscription[i]) < FirstAt(bAdded, bSubscription[j])
        /\ bLast.op = "Build"
            => IF bClientID = "" \/ valid = {}
               THEN bLast.err # NoErr /\ bLast.ms = <<>>
               ELSE /\ bLast.err = NoErr
                    /\ Len(bLast.ms) = Cardinality(valid)
                    /\ \A i \in 1..Len(bLast.ms) :
                          /\ bLast.ms[i].channel = bKind
                          /\ bLast.ms[i].clientId = bClientID
                          /\ bLast.ms[i].subscription = bSubscription[i]

C31_Witness ==
    /\ bKind = MetaUnsubscribe
    /\ bAdded = <<Foo, <<"foo">>, Foo>>
    /\ bSubscription = <<Foo>>
    /\ bLast.op = "Build"
    /\ Len(bLast.ms) = 1

\* A step on which the poll task or an advice-delay task calls
\* enqueueConnectRequest on the open queue: after a subscribe, after a
\* re-handshake, when a delay expires, in the default case of the select.
EnqueueStep ==
    \/ pc = "subscribe" /\ pc' = "select"
    \/ pc = "poll_handshake" /\ pc' = "select"
    \/ delayTasks' < delayTasks /\ ~panicked'
    \/ pc = "select" /\ pc' = "select" /\ connectRequestChannel' > connectRequestChannel

\* C32: enqueueing a /meta/connect request never blocks: the slot holds at
\* most one request, an enqueue on the full slot is dropped, and the loop
\* is back at its select after the enqueue.
C32_EnqueueNeverBlocks ==
    [][/\ connectRequestChannel' <= 1
       /\ EnqueueStep
            => /\ connectRequestChannel' = 1
               /\ lastEnqueue' = (IF connectRequestChannel = 1 THEN "dropped" ELSE "queued")
               /\ delayTasks' < delayTasks => pc' = pc
               /\ delayTasks' = delayTasks => pc' = "select"]_vars

C32_Witness ==
    /\ lastEnqueue = "dropped"
    /\ connectRequestChannel = 1
    /\ pc = "select"
    /\ ~closed
    /\ ~panicked

AloneErr(s, e) ==
    LET r == ProcessEvent(s, e)
    IN  IF r.err \in {<<"BadHandshakeError">>, <<"BadConnectionError">>}
        THEN r.err \o <<CurrentState(s)>>
        ELSE r.err

\* The calls of the tasks in order, made one after the other from state s,
\* end in ccState and return what the tasks got.
RECURSIVE OneAfterTheOther(_, _)
OneAfterTheOther(s, order) ==
    IF order = <<>>
    THEN s = ccState
    ELSE LET t == Head(order)
         IN  /\ ccTasks[t].err = AloneErr(s, ccTasks[t].e)
             /\ OneAfterTheOther(ProcessEvent(s, ccTasks[t].e).state, Tail(order))

\* C34: under any interleaving of ProcessEvent calls from several tasks the
\* stored state is UNCONNECTED, CONNECTING or CONNECTED, no call waits for
\* another, and once the calls have returned the final state and every
\* call's result are those of some order of the same calls made one after
\* the other.
C34_ConcurrentEventsSerializable ==
    LET called == {t \in Tasks : ccTasks[t].pc # "idle"}
    IN  /\ ccState \in {unconnected, connecting, connected}
        /\ \A t \in Tasks : ccTasks[t].pc = "load" => ENABLED ProcessEventLoad(t)
        /\ \A t \in Tasks : ccTasks[t].pc = "store" => ENABLED ProcessEventStore(t)
        /\ (\A t \in called : ccTasks[t].pc = "done")
            => \E order \in [1..Cardinality(called) -> called] :
                  /\ \A i, j \in DOMAIN order : order[i] = order[j] => i = j
                  /\ OneAfterTheOther(unconnected, order)

\* C35: a Handshake that fails after the handshakeSent transition leaves the
\* state machine in CONNECTING; from then on every Handshake fails with
\* BadHandshakeError and sends no request, and Connect, Subscribe,
\* Unsubscribe and Disconnect fail as not connected.
C35_FailedHandshakeStaysConnecting ==
    [][/\ (bcLast'.op = "Handshake" /\ bcLast'.sent /\ bcLast'.err # NoErr
                /\ bcCalls' = bcCalls + 1)
            => bcState' = connecting
       /\ (bcState = connecting /\ bcCalls' = bcCalls + 1)
            => /\ bcState' = connecting
               /\ ~bcLast'.sent
               /\ bcLast'.op = "Handshake"
                    => bcLast'.err = <<"HandshakeFailedError", "BadHandshakeError">>
               /\ bcLast'.op # "Handshake"
                    => bcLast'.err[Len(bcLast'.err)] = "ErrClientNotConnected"]_vars

C35_Witness ==
    /\ bcState = connecting
    /\ bcCalls = 3
    /\ bcLast = [op |-> "Handshake", sent |-> FALSE,
                 err |-> <<"HandshakeFailedError", "BadHandshakeError">>]

\* C36: the poll loop is never stuck in a send on a queue it alone receives
\* from: neither in the send of a handshake request while it handles a
\* /meta/connect batch, nor in the delivery of a /meta/connect run to the
\* internal sink.
C36_LoopNeverStuckOnOwnQueue ==
    pc \notin {"blocked_handshake_send", "blocked_connect_send"}

\* C37: handling a /meta/connect batch in which a message carries no advice
\* does not fault: no handshake request is enqueued for it and the loop goes
\* on polling.
C37_NoAdviceDoesNotFault ==
    [][(/\ pc = "select"
        /\ ~closed
        /\ connectMessageChannel # <<>>
        /\ connectMessageChannel' = Tail(connectMessageChannel)
        /\ \E i \in 1..Len(Head(connectMessageChannel)) :
                Head(connectMessageChannel)[i].advice = NilAdvice
        /\ \A i \in 1..Len(Head(connectMessageChannel)) :
                ~ShouldHandshake(Head(connectMessageChannel)[i].advice))
            => (~panicked' /\ pc' = "select")]_vars

\* C38: once Client.Disconnect has closed the queues, no step of the poll
\* task or of an advice-delay task sends on a closed queue (a panic), and
\* the loop takes no receive from a closed queue for a connect, subscribe,
\* unsubscribe or handshake request.
C38_ClosedQueuesLeftAlone ==
    [][(/\ closed
        /\ ~panicked
        /\ nSubscribe' = nSubscribe
        /\ nUnsubscribe' = nUnsubscribe
        /\ nDisconnect' = nDisconnect
        /\ userDisc' = userDisc)
            => /\ ~panicked'
               /\ pc = "select"
                    => /\ nConnect' = nConnect
                       /\ nHandshake' = nHandshake
                       /\ pc' = "select" \/ (pc' = "done" /\ ctxDone)]_vars

C40_InternalSinkStaysRegistered ==
    (nHandshakeOK >= 1 /\ ~closed /\ ~ctxDone /\ pc \notin {"idle", "start_handshake", "done"})
        => /\ MetaConnect \in DOMAIN subscriptions
           /\ subscriptions[MetaConnect] = ConnectSink

====
